---- MODULE Spec2Model ----
(***************************************************************************)
(* A model of the GitHub webhook pipeline of level-2-agent-code:           *)
(*   - handlePullRequestBase, getAllTestFiles, removeLabel                 *)
(*     (_lib/handlers.ts),                                                 *)
(*   - finalizeTestProposals / commitTestsToExistingBranch /               *)
(*     handleTestGeneration (_lib/test-agent.ts),                          *)
(*   - handleReviewAgent (_lib/github.ts),                                 *)
(*   - POST (route.ts).                                                    *)
(*                                                                         *)
(* Strings the code inspects (file names) are sequences of tokens; the     *)
(* tokens are chosen so that every substring the code looks for            *)
(* (".test.ts", ".test.tsx", ".tsx", "app/", the lockfile names, the test  *)
(* directories) is a sequence of whole tokens: ".tsx" is <<".ts", "x">>,   *)
(* so ".test.ts" is a proper prefix of ".test.tsx" as it is in the code.   *)
(*                                                                         *)
(* Five specifications share the module:                                   *)
(*   SpecContext   handlePullRequestBase, one step per await               *)
(*   SpecFinalize  finalizeTestProposals as a pure function                *)
(*   Spec          POST and the two agents, one step per awaited call      *)
(*   SpecLabel     removeLabel called repeatedly on one PR                 *)
(*   SpecRace      two runs of handleTestGeneration on one PR, interleaved *)
(***************************************************************************)
EXTENDS Integers, Sequences, FiniteSets, TLC

VARIABLES
  \* ---- SpecContext: one run of handlePullRequestBase
  cpc,          \* position: "listFiles", "fetching", "returned", "threw"
  payloadFields,\* TRUE iff the payload carries the objects lines 76-81 read from
  hostFiles,    \* what pulls.listFiles answers: sequence of [filename, status]
  fileObjs,     \* the fileObj of each map callback
  fstate,       \* per callback: "idle", "pending", "done", "rejected"
  fetched,      \* per callback: what getFileContent answered (NotAsked before)
  fetchLog,     \* the indices for which getFileContent was called, in order
  settled,      \* the callbacks in the order in which their promises settled
  hostCommits,  \* what pulls.listCommits answered: sequence of [sha, message]
  commitMessages, \* the commitMessages of the context returned
  \* ---- SpecFinalize: one application of finalizeTestProposals
  finProposals, \* the proposals handed in
  finFiles,     \* the changedFiles handed in
  finOut,       \* the proposals returned (<<>> before: the input is not empty)
  \* ---- Spec: one webhook delivery handled by POST
  pc,           \* where the invocation stands
  req,          \* the request: body, payload fields, event header; fields:
                \* the objects handlers.ts lines 76-81 read from are present
                \* (repository, owner, pull_request, head, base); title: so
                \* is pull_request.title
  step,         \* the next of the three agent invocations POST tests
  ctx,          \* the changedFiles of the PR Context built
  existingTestFiles, \* the existingTestFiles of the test agent's context
  testTree,     \* what the host held under the test root when it was walked
  loc,          \* the agent's locals: commentId (0: undefined), analysis,
                \* gate, proposals, k (loop position), held (blob hash)
  host,         \* the host: the PR comment, the branch, the PR's labels
  calls,        \* every host and model call made, with its answer
  invoked,      \* the handlers POST called, in order
  run,          \* the agent POST called and whether it returned or raised
  response,     \* POST's response: "none", "ok", "error"
  \* ---- SpecRace: two invocations of handleTestGeneration for one PR
  runs,         \* per invocation: its position, its locals (commentId, the
                \* proposal generated, the blob hash held) and the calls
                \* it has made so far
  shared        \* the host both talk to: the PR's comments, the blob hash
                \* and the author of the one path both commit to, the label

ctxVars == <<cpc, payloadFields, hostFiles, fileObjs, fstate, fetched, fetchLog,
             settled, hostCommits, commitMessages>>
finVars == <<finProposals, finFiles, finOut>>
raceVars == <<runs, shared>>
mainVars == <<pc, req, step, ctx, existingTestFiles, testTree, loc, host, calls,
              invoked, run, response>>
vars == <<cpc, payloadFields, hostFiles, fileObjs, fstate, fetched, fetchLog,
          settled, hostCommits, commitMessages,
          finProposals, finFiles, finOut,
          pc, req, step, ctx, existingTestFiles, testTree, loc, host, calls,
          invoked,
          run, response, runs, shared>>

(***************************************************************************)
(* Bounds of the model.                                                    *)
(***************************************************************************)
MaxFiles == 2
MaxProposals == 2

(***************************************************************************)
(* Strings as token sequences: the JavaScript string methods the code uses.*)
(***************************************************************************)
\* String.prototype.endsWith
EndsWith(s, suf) ==
  /\ Len(s) >= Len(suf)
  /\ SubSeq(s, Len(s) - Len(suf) + 1, Len(s)) = suf

\* the positions at which pat occurs in s
Occurrences(s, pat) ==
  {i \in 1..(Len(s) - Len(pat) + 1) : SubSeq(s, i, i + Len(pat) - 1) = pat}

\* String.prototype.includes
Includes(s, pat) == Occurrences(s, pat) # {}

\* String.prototype.replace with a string pattern: the first occurrence only
ReplaceFirst(s, pat, rep) ==
  IF Occurrences(s, pat) = {} THEN s
  ELSE LET i == CHOOSE j \in Occurrences(s, pat) :
                   \A m \in Occurrences(s, pat) : j <= m
       IN SubSeq(s, 1, i - 1) \o rep \o SubSeq(s, i + Len(pat), Len(s))

\* String.prototype.replace with the regular expression /pat$/
ReplaceAtEnd(s, pat, rep) ==
  IF EndsWith(s, pat) THEN SubSeq(s, 1, Len(s) - Len(pat)) \o rep ELSE s

(***************************************************************************)
(* handlers.ts: constants and shouldExcludeFile.                           *)
(***************************************************************************)
SIZE_THRESHOLD == 32000

EXCLUDE_PATTERNS ==
  {<<"package-lock.json">>, <<"yarn.lock">>, <<"pnpm-lock.yaml">>}

shouldExcludeFileExact(filename) == filename \in EXCLUDE_PATTERNS

shouldExcludeFile(filename) ==
  \E pattern \in EXCLUDE_PATTERNS : EndsWith(filename, pattern)

(***************************************************************************)
(* Values.  A file content is [len, react]: its length in characters and   *)
(* whether it includes 'import React' or 'from "react"'.  NoContent is     *)
(* JavaScript's undefined.                                                 *)
(***************************************************************************)
NoContent == [none |-> TRUE]
NotAsked == [asked |-> FALSE]
FetchError == [error |-> TRUE]

Content(len, react) == [len |-> len, react |-> react]

IsContent(c) == c # NoContent /\ c # NotAsked /\ c # FetchError

\* JavaScript truthiness of `string | undefined`: undefined and "" are falsy
Truthy(c) == IsContent(c) /\ c.len > 0

(***************************************************************************)
(* handlePullRequestBase: the body of one map callback.                    *)
(***************************************************************************)
\* lines 93-101: the fileObj a callback starts from
NewFileObj(file) ==
  [filename |-> file.filename, status |-> file.status,
   content |-> NoContent, excluded |-> FALSE]

\* line 106: whether the callback fetches the content
WantsContent(file) ==
  file.status # "removed" /\ ~shouldExcludeFile(file.filename)

\* lines 114-118 mutated: every fetched string is attached, whatever its size
AfterFetchNoSizeCheck(fileObj, fileContent) ==
  IF Truthy(fileContent)
    THEN [fileObj EXCEPT !.content = fileContent]
    ELSE [fileObj EXCEPT !.excluded = TRUE]

\* lines 114-118 mutated: only an oversized file is marked excluded
AfterFetchOnlyLargeExcluded(fileObj, fileContent) ==
  IF Truthy(fileContent) /\ fileContent.len <= SIZE_THRESHOLD
    THEN [fileObj EXCEPT !.content = fileContent]
    ELSE IF Truthy(fileContent)
      THEN [fileObj EXCEPT !.excluded = TRUE]
      ELSE fileObj

\* lines 114-118: fileContent is a content or NoContent (undefined)
AfterFetch(fileObj, fileContent) ==
  IF Truthy(fileContent) /\ fileContent.len <= SIZE_THRESHOLD
    THEN [fileObj EXCEPT !.content = fileContent]
    ELSE [fileObj EXCEPT !.excluded = TRUE]

\* lines 119-121: no fetch
WithoutFetch(fileObj) == [fileObj EXCEPT !.excluded = TRUE]

SeqsUpTo(S, n) == UNION {[1..m -> S] : m \in 0..n}

ChangedFile(filename, status, fetchResult) ==
  LET file == [filename |-> filename, status |-> status]
  IN IF WantsContent(file)
       THEN AfterFetch(NewFileObj(file), fetchResult)
       ELSE WithoutFetch(NewFileObj(file))

(***************************************************************************)
(* test-agent.ts: finalizeTestProposals.  A proposal is                    *)
(* [filename, testType, testContent, actions: [action, oldFilename]];      *)
(* parseTestXml never yields an empty oldFilename, so <<>> stands for an   *)
(* absent one.                                                             *)
(***************************************************************************)
TEST_TS == <<".test", ".ts">>
TEST_TSX == <<".test", ".ts", "x">>
TSX == <<".ts", "x">>

\* lines 87-91: the proposal's filename stripped of the test markers
StripTestMarkers(filename) ==
  ReplaceFirst(
    ReplaceFirst(
      ReplaceFirst(
        ReplaceFirst(filename, <<"__tests__/unit/">>, <<>>),
        <<"__tests__/e2e/">>, <<>>),
      TEST_TSX, <<>>),
    TEST_TS, <<>>)

\* lines 85-96: the disjunction one changed file is tested with
LooksReactRelated(file, proposal) ==
  \/ file.filename = StripTestMarkers(proposal.filename)
  \/ EndsWith(file.filename, TSX)
  \/ (IsContent(file.content) /\ file.content.react)
  \/ Includes(file.filename, <<"app/">>)

\* lines 83-97: changedFiles.some(...), skipping files without content
reactRelated(proposal, files) ==
  \E i \in 1..Len(files) :
    /\ Truthy(files[i].content)
    /\ LooksReactRelated(files[i], proposal)

\* lines 98-112: the filename after the extension is forced
FinalFilename(filename, isReact) ==
  IF isReact
    THEN IF ~EndsWith(filename, TEST_TSX)
           THEN ReplaceAtEnd(filename, TEST_TS, TEST_TSX)
           ELSE filename
    ELSE IF ~EndsWith(filename, TEST_TS)
           THEN ReplaceAtEnd(filename, TEST_TSX, TEST_TS)
           ELSE filename

\* lines 82-114
finalizeTestProposals(proposals, files) ==
  [i \in 1..Len(proposals) |->
     [proposals[i] EXCEPT
        !.filename = FinalFilename(@, reactRelated(proposals[i], files))]]

(***************************************************************************)
(* route.ts and the two agents: values.                                    *)
(***************************************************************************)
REVIEW_LABEL == "agent-review-pr"
\* test-agent.ts line 25 mutated: the label of the review agent
TestLabelIsReviewLabel == "agent-review-pr"

\* test-agent.ts line 25
TEST_GENERATION_LABEL == "agent-generate-tests"

\* comment bodies
NoComment == [kind |-> "none"]
ReviewPlaceholder == [kind |-> "placeholder", agent |-> "review"]
TestPlaceholder == [kind |-> "placeholder", agent |-> "test"]
ReviewFailure == [kind |-> "failure", agent |-> "review"]
\* test-agent.ts line 400 mutated: the catch writes the placeholder again
TestFailureKeepsPlaceholder == [kind |-> "placeholder", agent |-> "test"]

\* test-agent.ts line 400
TestFailure == [kind |-> "failure", agent |-> "test"]

\* github.ts lines 158-170: updateCommentWithReview's body
ReviewBody(analysis) ==
  [kind |-> "review", summary |-> analysis.summary,
   fileAnalyses |-> analysis.fileAnalyses,
   overallSuggestions |-> analysis.overallSuggestions]

\* test-agent.ts line 376
SkipBody(reason) == [kind |-> "skip", reason |-> reason]

\* test-agent.ts lines 285-295 mutated: the list is rendered even when empty
ResultsBodyAlwaysList(testProposals) ==
  [kind |-> "results",
   files |-> [i \in 1..Len(testProposals) |-> testProposals[i].filename]]

\* test-agent.ts lines 285-295: updateCommentWithResults's body
ResultsBody(testProposals) ==
  IF Len(testProposals) > 0
    THEN [kind |-> "results",
          files |-> [i \in 1..Len(testProposals) |-> testProposals[i].filename]]
    ELSE [kind |-> "noProposals"]

(***************************************************************************)
(* The model's answers.  A text is [startIndex, endTagIndex, xml, items]:  *)
(* where indexOf finds the opening and the closing tag (-1: nowhere),      *)
(* whether the tagged block is well-formed XML, and the <proposal> items.  *)
(***************************************************************************)
ModelFailure == [failed |-> TRUE]

REVIEW_END_TAG_LENGTH == 9
TESTS_END_TAG_LENGTH == 8

Text(startIndex, endTagIndex, xml, items) ==
  [startIndex |-> startIndex, endTagIndex |-> endTagIndex, xml |-> xml,
   items |-> items]

\* the slice taken as if it always were the whole tagged block
XmlParsesWhateverTheSlice(text) ==
  /\ text.xml # "malformed"
  /\ text.startIndex >= 0

\* xmlText.slice(startIndex, endIndex) handed to parseStringPromise: it
\* resolves only when the slice is the whole, well-formed tagged block
XmlParses(text) ==
  /\ text.xml # "malformed"
  /\ text.startIndex >= 0
  /\ text.endTagIndex > text.startIndex

\* github.ts lines 107-111, 135-139, 241-245: a summary with no analyses
Fallback(summary) ==
  [summary |-> summary, fileAnalyses |-> <<>>, overallSuggestions |-> <<>>]

\* the analysis local of handleReviewAgent before generateReview has run
NoAnalysis == Fallback("")

\* github.ts lines 96-141
parseReviewXml(xmlText) ==
  LET startIndex == xmlText.startIndex
      endIndex == xmlText.endTagIndex + REVIEW_END_TAG_LENGTH
  IN IF startIndex = -1 \/ endIndex = -1
       THEN Fallback("Could not parse AI response.")
       ELSE IF XmlParses(xmlText)
         THEN [summary |-> "summary",
               fileAnalyses |-> xmlText.items.fileAnalyses,
               overallSuggestions |-> xmlText.items.overallSuggestions]
         ELSE Fallback("Parsing error from AI response.")

\* github.ts lines 239-246 mutated: a model failure is reported as a
\* parsing error
generateReviewSameAsParseError(answer) ==
  IF answer = ModelFailure THEN Fallback("Parsing error from AI response.")
  ELSE parseReviewXml(answer)

\* github.ts lines 223-246
generateReview(answer) ==
  IF answer = ModelFailure
    THEN Fallback(
           "We were unable to analyze the code due to an internal error.")
    ELSE parseReviewXml(answer)

\* test-agent.ts lines 48-74: one <proposal> item; "" is a missing element
ParsedItem(item) ==
  [filename |-> item.filename,
   testType |-> IF item.testType = "e2e" THEN "e2e" ELSE "unit",
   testContent |-> item.testContent,
   actions |->
     [action |-> IF item.action \in {"update", "rename", "create"}
                   THEN item.action ELSE "create",
      oldFilename |-> item.oldFilename]]

\* test-agent.ts line 64
ItemKept(item) == item.filename # <<>> /\ item.testContent # ""

\* test-agent.ts lines 35-76, when parseStringPromise resolves
parseTestXml(xmlText) ==
  LET startIndex == xmlText.startIndex
      endIndex == xmlText.endTagIndex + TESTS_END_TAG_LENGTH
  IN IF startIndex = -1 \/ endIndex = -1 THEN <<>>
     ELSE IF xmlText.xml = "noProposals" THEN <<>>
     ELSE LET kept == SelectSeq(xmlText.items, ItemKept)
          IN [i \in 1..Len(kept) |-> ParsedItem(kept[i])]

\* test-agent.ts lines 38-42: parseStringPromise rejects
parseTestXmlThrows(xmlText) ==
  /\ xmlText.startIndex # -1
  /\ xmlText.endTagIndex + TESTS_END_TAG_LENGTH # -1
  /\ ~XmlParses(xmlText)

\* test-agent.ts lines 187-197
generateTestsForChanges(files, answer) ==
  IF answer = ModelFailure THEN <<>>
  ELSE IF parseTestXmlThrows(answer) THEN <<>>
  ELSE finalizeTestProposals(parseTestXml(answer), files)

\* what the call log keeps of a generateText call and its answer
TextCall(answer) ==
  IF answer = ModelFailure THEN [op |-> "generateText", res |-> "error"]
  ELSE [op |-> "generateText", res |-> "ok",
        startIndex |-> answer.startIndex,
        endTagIndex |-> answer.endTagIndex]

\* test-agent.ts line 352 mutated: a failed gate lets generation proceed
GatingFailureProceeds ==
  [shouldGenerate |-> TRUE, reason |-> "Error in gating check",
   recommendation |-> ""]

\* test-agent.ts line 352
GatingFailure ==
  [shouldGenerate |-> FALSE, reason |-> "Error in gating check",
   recommendation |-> ""]

\* test-agent.ts lines 336-353
gatingStep(answer) ==
  IF answer = ModelFailure THEN GatingFailure
  ELSE [shouldGenerate |-> answer.shouldGenerateTests,
        reason |-> answer.reasoning,
        recommendation |-> answer.recommendation]

NoGate == [shouldGenerate |-> FALSE, reason |-> "", recommendation |-> ""]

(***************************************************************************)
(* handlers.ts lines 157-202: getAllTestFiles.  A tree is what the host    *)
(* answers for a directory path: res is "404", "error" (any other          *)
(* rejection), "file" (the path is not a directory) or "dir" with the      *)
(* listed items; a file item carries what getFileContent answers for it,   *)
(* a dir item the tree of the sub-directory.                               *)
(***************************************************************************)
Tree(path, res, items) == [path |-> path, res |-> res, items |-> items]

\* no walk has asked the host yet
NoTree == Tree(<<>>, "none", <<>>)

FileItem(path, answer) == [type |-> "file", path |-> path, answer |-> answer]

DirItem(path, tree) == [type |-> "dir", path |-> path, tree |-> tree]

\* lines 193-199 mutated: the not-found status is raised to the caller
CatchRethrowsNotFound(status) == status = "404"

\* lines 193-199 mutated: an error other than not-found is raised to the
\* caller
CatchRethrowsOthers(status) == status = "error"

\* lines 193-199: the catch logs every error and raises none
CatchRethrows(status) == FALSE

\* lines 167-172 mutated: the walk writes a file at the path instead of
\* listing it
WalkListingWrites(tree) ==
  [op |-> "createOrUpdateFileContents", path |-> tree.path, k |-> 0,
   sha |-> 0, res |-> tree.res]

\* lines 167-172: repos.getContent of the directory, with its answer
WalkListing(tree) ==
  [op |-> "getContent", path |-> tree.path, k |-> 0, res |-> tree.res]

RECURSIVE getAllTestFiles(_)
RECURSIVE WalkItems(_, _, _, _)

\* lines 176-191: the loop over the listed items from item i on; a rejected
\* getFileContent leaves the loop for the catch with the results so far
WalkItems(items, i, results, log) ==
  IF i > Len(items)
    THEN [files |-> results, calls |-> log, status |-> "ok"]
  ELSE LET item == items[i]
       IN IF item.type = "file"
            THEN IF item.answer = FetchError
                   THEN [files |-> results,
                         calls |-> Append(log, [op |-> "getFileContent",
                                                res |-> "error"]),
                         status |-> "error"]
                   ELSE WalkItems(items, i + 1,
                          IF Truthy(item.answer)
                            THEN Append(results, [filename |-> item.path,
                                                  content |-> item.answer])
                            ELSE results,
                          Append(log, [op |-> "getFileContent",
                                       res |-> "ok"]))
          ELSE IF item.type = "dir"
            THEN LET sub == getAllTestFiles(item.tree)
                 IN IF sub.raised # "none"
                      THEN [files |-> results, calls |-> log \o sub.calls,
                            status |-> sub.raised]
                      ELSE WalkItems(items, i + 1, results \o sub.files,
                                     log \o sub.calls)
          ELSE WalkItems(items, i + 1, results, log)

\* lines 157-202: the files returned, the host calls made, and the status
\* of the error raised to the caller ("none": it returns)
getAllTestFiles(tree) ==
  LET listing == WalkListing(tree)
      body == IF tree.res = "dir"
                THEN WalkItems(tree.items, 1, <<>>, <<listing>>)
                ELSE [files |-> <<>>, calls |-> <<listing>>,
                      status |-> IF tree.res = "file" THEN "ok" ELSE tree.res]
  IN [files |-> body.files, calls |-> body.calls,
      raised |-> IF body.status # "ok" /\ CatchRethrows(body.status)
                   THEN body.status ELSE "none"]

(***************************************************************************)
(* Inputs of Spec.                                                         *)
(***************************************************************************)
FOO_TS == <<"foo", ".test", ".ts">>
FOO_TSX == <<"foo", ".test", ".ts", "x">>
BAR_TS == <<"bar", ".test", ".ts">>
BAR_TSX == <<"bar", ".test", ".ts", "x">>

Paths == {FOO_TS, FOO_TSX, BAR_TS, BAR_TSX}

RawItem(filename, testContent, action, oldFilename) ==
  [filename |-> filename, testType |-> "unit", testContent |-> testContent,
   action |-> action, oldFilename |-> oldFilename]

\* the <proposal> items a model answer is made of
RawItemPool ==
  { RawItem(FOO_TS, "test", "create", <<>>),
    RawItem(FOO_TSX, "test", "rename", FOO_TS),
    RawItem(FOO_TSX, "test", "update", <<>>),
    RawItem(BAR_TS, "test", "rename", <<>>),
    RawItem(BAR_TS, "test", "rename", FOO_TS),
    RawItem(BAR_TS, "", "delete", <<>>) }

\* the answers of generateText in generateTestsForChanges: the whole block
\* with some proposals, and texts with the opening tag, the closing tag or
\* both missing, or with a block that is not well-formed
TestTexts ==
  {Text(0, 40, "ok", items) : items \in SeqsUpTo(RawItemPool, MaxProposals)}
    \cup {Text(-1, -1, "ok", <<RawItem(FOO_TS, "test", "create", <<>>)>>),
          Text(0, -1, "ok", <<RawItem(FOO_TS, "test", "create", <<>>)>>),
          Text(3, -1, "ok", <<RawItem(FOO_TS, "test", "create", <<>>)>>),
          Text(-1, 40, "ok", <<RawItem(FOO_TS, "test", "create", <<>>)>>),
          Text(0, 40, "malformed", <<>>), Text(0, 40, "noProposals", <<>>)}

ReviewItems(fileAnalyses, overallSuggestions) ==
  [fileAnalyses |-> fileAnalyses, overallSuggestions |-> overallSuggestions]

\* the answers of generateText in generateReview
ReviewTexts ==
  {Text(0, 40, "ok", ReviewItems(<<>>, <<>>)),
   Text(0, 40, "ok", ReviewItems(<<"analysis">>, <<"suggestion">>)),
   Text(3, 40, "malformed", ReviewItems(<<>>, <<>>)),
   Text(-1, -1, "ok", ReviewItems(<<"analysis">>, <<"suggestion">>)),
   Text(0, -1, "ok", ReviewItems(<<"analysis">>, <<"suggestion">>)),
   Text(3, -1, "ok", ReviewItems(<<"analysis">>, <<"suggestion">>)),
   Text(-1, 40, "ok", ReviewItems(<<"analysis">>, <<"suggestion">>))}

GateAnswers ==
  {[shouldGenerateTests |-> b, reasoning |-> "reasoning",
    recommendation |-> "recommendation"] : b \in BOOLEAN}

\* the changed files the host reports, with what getFileContent answers
HostLists ==
  { <<[filename |-> <<"src/", "util", ".ts">>, status |-> "modified",
       answer |-> Content(1, FALSE)]>>,
    <<[filename |-> <<"components/", "Button", ".ts", "x">>,
       status |-> "added", answer |-> Content(20000, TRUE)]>> }

\* the branch: path -> blob hash, 0 when absent, -1 for a directory
Branches ==
  { [p \in Paths |-> 0],
    [p \in Paths |-> IF p = FOO_TS THEN 1 ELSE 0],
    [p \in Paths |-> IF p \in {FOO_TS, FOO_TSX} THEN 1
                     ELSE IF p = BAR_TS THEN -1 ELSE 0] }

TESTS_DIR == <<"__tests__">>
A_TEST == <<"__tests__/", "a", ".test", ".ts">>
B_TEST == <<"__tests__/", "unit/", "b", ".test", ".ts">>
C_TEST == <<"__tests__/", "unit/", "c", ".test", ".ts">>
D_TEST == <<"__tests__/", "d", ".test", ".ts">>

\* what the host holds under the test-root directory
TestTrees ==
  { Tree(TESTS_DIR, "404", <<>>),
    Tree(TESTS_DIR, "error", <<>>),
    Tree(TESTS_DIR, "file", <<>>),
    Tree(TESTS_DIR, "dir", <<>>),
    Tree(TESTS_DIR, "dir",
         <<FileItem(A_TEST, Content(1, FALSE)),
           DirItem(<<"__tests__/", "unit/">>,
                   Tree(<<"__tests__/", "unit/">>, "dir",
                        <<FileItem(B_TEST, Content(1, FALSE))>>))>>),
    Tree(TESTS_DIR, "dir",
         <<FileItem(A_TEST, Content(0, FALSE)),
           [type |-> "symlink", path |-> <<"__tests__/", "link">>],
           DirItem(<<"__tests__/", "unit/">>,
                   Tree(<<"__tests__/", "unit/">>, "404", <<>>)),
           FileItem(B_TEST, NoContent)>>),
    Tree(TESTS_DIR, "dir",
         <<FileItem(A_TEST, Content(1, FALSE)),
           FileItem(B_TEST, FetchError)>>),
    Tree(TESTS_DIR, "dir",
         <<DirItem(<<"__tests__/", "unit/">>,
                   Tree(<<"__tests__/", "unit/">>, "error", <<>>)),
           FileItem(A_TEST, Content(1, FALSE))>>),
    Tree(TESTS_DIR, "dir",
         <<FileItem(A_TEST, Content(1, FALSE)),
           DirItem(<<"__tests__/", "unit/">>,
                   Tree(<<"__tests__/", "unit/">>, "dir",
                        <<FileItem(B_TEST, FetchError),
                          FileItem(C_TEST, Content(1, FALSE))>>)),
           FileItem(D_TEST, Content(1, FALSE))>>) }

Requests ==
  [body : {"json", "garbage"}, fields : BOOLEAN, title : BOOLEAN,
   eventType : {"pull_request", "issues"},
   action : {"opened", "labeled", "closed"},
   label : {REVIEW_LABEL, TEST_GENERATION_LABEL, "bug"}]

MainIdle ==
  /\ pc = "idle"
  /\ req = [body |-> "json", fields |-> TRUE, title |-> TRUE,
            eventType |-> "issues",
            action |-> "closed", label |-> "bug"]
  /\ step = 1
  /\ ctx = <<>>
  /\ existingTestFiles = <<>>
  /\ testTree = NoTree
  /\ loc = [commentId |-> 0, analysis |-> NoAnalysis, gate |-> NoGate,
            proposals |-> <<>>, k |-> 1, held |-> 0]
  /\ host = [comment |-> NoComment, branch |-> [p \in Paths |-> 0],
             labels |-> {}]
  /\ calls = <<>>
  /\ invoked = <<>>
  /\ run = [agent |-> "none", state |-> "none"]
  /\ response = "none"


(***************************************************************************)
(* Inputs of SpecContext.                                                  *)
(***************************************************************************)
CtxFilePool ==
  { [filename |-> <<"src/", "util", ".ts">>, status |-> "modified"],
    [filename |-> <<"src/", "util", ".ts">>, status |-> "removed"],
    [filename |-> <<"app/", "page", ".ts", "x">>, status |-> "added"],
    [filename |-> <<"package-lock.json">>, status |-> "modified"],
    [filename |-> <<"sub/", "yarn.lock">>, status |-> "added"],
    [filename |-> <<"pnpm-lock.yaml">>, status |-> "removed"],
    [filename |-> <<"yarn.lock", ".bak">>, status |-> "renamed"] }

CtxLens == {0, 1, 20000, SIZE_THRESHOLD, SIZE_THRESHOLD + 1, 35000}

\* what getFileContent can answer: a string, undefined (404 or not a file),
\* or a rejection (any other host error, github.ts line 70)
FetchOutcomes ==
  {Content(n, FALSE) : n \in CtxLens} \cup {NoContent, FetchError}

CtxIdle ==
  /\ cpc = "idle"
  /\ payloadFields = TRUE
  /\ hostFiles = <<>>
  /\ fileObjs = <<>>
  /\ fstate = <<>>
  /\ fetched = <<>>
  /\ fetchLog = <<>>
  /\ settled = <<>>
  /\ hostCommits = <<>>
  /\ commitMessages = <<>>

\* the invocations of SpecRace
Invocations == {1, 2}

\* test-agent.ts lines 359-360: an invocation before its first call
NewRun(at) ==
  [pc |-> at, commentId |-> 0, reason |-> "", proposes |-> FALSE, held |-> 0,
   created |-> 0, updated |-> {}, lookups |-> 0, writes |-> 0,
   stale |-> FALSE, conflict |-> FALSE, wrote |-> FALSE, removals |-> 0]

RaceIdle ==
  /\ runs = [i \in Invocations |-> NewRun("idle")]
  /\ shared = [comments |-> <<>>, branch |-> 0, author |-> 0, label |-> FALSE]

FinIdle ==
  /\ finProposals = <<>>
  /\ finFiles = <<>>
  /\ finOut = <<>>

MaxCommits == 2

\* the commits pulls.listCommits can answer
CommitPool ==
  { [sha |-> 1, message |-> "fix"], [sha |-> 2, message |-> "add tests"],
    [sha |-> 3, message |-> "fix"] }

\* line 133: commitsRes.data.map(c => c.commit.message)
MessagesOf(commits) == [i \in 1..Len(commits) |-> commits[i].message]

\* line 91 mutated: the array holds the values in the order in which the
\* promises settled
PromiseAllInSettleOrder(values, order) ==
  [n \in 1..Len(order) |-> values[order[n]]]

\* line 91: Promise.all resolves to the values of the promises in the order
\* of the array it was given, whatever the order in which they settled
PromiseAll(values, order) == values

CtxInit ==
  /\ cpc = "listFiles"
  /\ payloadFields \in BOOLEAN
  /\ hostFiles \in SeqsUpTo(CtxFilePool, MaxFiles)
  /\ fileObjs = <<>>
  /\ fstate = <<>>
  /\ fetched = <<>>
  /\ fetchLog = <<>>
  /\ settled = <<>>
  /\ hostCommits = <<>>
  /\ commitMessages = <<>>
  /\ FinIdle
  /\ MainIdle
  /\ RaceIdle

\* lines 76-81: a missing field raises before any host call
CtxMalformedPayload ==
  /\ cpc = "listFiles"
  /\ ~payloadFields
  /\ cpc' = "threw"
  /\ UNCHANGED <<payloadFields, hostFiles, fileObjs, fstate, fetched, fetchLog,
                 settled, hostCommits, commitMessages>>
  /\ UNCHANGED <<finVars, mainVars, raceVars>>

\* lines 84-88: pulls.listFiles rejects
CtxListFilesFails ==
  /\ cpc = "listFiles"
  /\ payloadFields
  /\ cpc' = "threw"
  /\ UNCHANGED <<payloadFields, hostFiles, fileObjs, fstate, fetched, fetchLog,
                 settled, hostCommits, commitMessages>>
  /\ UNCHANGED <<finVars, mainVars, raceVars>>

\* lines 84-112: pulls.listFiles answers; filesRes.data.map runs every
\* callback up to its first await, in index order: a callback that wants the
\* content calls getFileContent and waits, the others finish at once
CtxListFiles ==
  /\ cpc = "listFiles"
  /\ payloadFields
  /\ LET n == Len(hostFiles)
         asks == {i \in 1..n : WantsContent(hostFiles[i])}
     IN /\ fileObjs' = [i \in 1..n |->
                          IF i \in asks THEN NewFileObj(hostFiles[i])
                          ELSE WithoutFetch(NewFileObj(hostFiles[i]))]
        /\ fstate' = [i \in 1..n |-> IF i \in asks THEN "pending" ELSE "done"]
        /\ fetched' = [i \in 1..n |-> NotAsked]
        /\ fetchLog' = SelectSeq([i \in 1..n |-> i], LAMBDA i : i \in asks)
        /\ settled' = SelectSeq([i \in 1..n |-> i], LAMBDA i : i \notin asks)
  /\ cpc' = "fetching"
  /\ UNCHANGED <<payloadFields, hostFiles, hostCommits, commitMessages>>
  /\ UNCHANGED <<finVars, mainVars, raceVars>>

\* lines 107-118: one getFileContent settles, in any order (Promise.all).
\* A rejection rejects Promise.all at once, while the other fetches go on.
CtxFetchReturn(i) ==
  /\ cpc \in {"fetching", "threw"}
  /\ i \in 1..Len(fstate)
  /\ fstate[i] = "pending"
  /\ \E out \in FetchOutcomes :
       /\ fetched' = [fetched EXCEPT ![i] = out]
       /\ IF out = FetchError
            THEN /\ fstate' = [fstate EXCEPT ![i] = "rejected"]
                 /\ fileObjs' = fileObjs
                 /\ cpc' = "threw"
            ELSE /\ fstate' = [fstate EXCEPT ![i] = "done"]
                 /\ fileObjs' = [fileObjs EXCEPT ![i] = AfterFetch(@, out)]
                 /\ cpc' = cpc
  /\ settled' = Append(settled, i)
  /\ UNCHANGED <<payloadFields, hostFiles, fetchLog, hostCommits, commitMessages>>
  /\ UNCHANGED <<finVars, mainVars, raceVars>>

\* lines 128-144: every callback is done; pulls.listCommits answers and the
\* context is returned, or it rejects
CtxListCommits ==
  /\ cpc = "fetching"
  /\ \A i \in 1..Len(fstate) : fstate[i] = "done"
  /\ \/ /\ cpc' = "threw"
        /\ UNCHANGED <<hostCommits, commitMessages>>
     \/ \E commits \in SeqsUpTo(CommitPool, MaxCommits) :
          /\ hostCommits' = commits
          /\ commitMessages' = MessagesOf(commits)
          /\ cpc' = "returned"
  /\ UNCHANGED <<payloadFields, hostFiles, fileObjs, fstate, fetched, fetchLog,
                 settled>>
  /\ UNCHANGED <<finVars, mainVars, raceVars>>

CtxNext ==
  \/ CtxMalformedPayload
  \/ CtxListFilesFails
  \/ CtxListFiles
  \/ \E i \in 1..Len(fstate) : CtxFetchReturn(i)
  \/ CtxListCommits

SpecContext == CtxInit /\ [][CtxNext]_vars

\* the changedFiles of the PR Context handlePullRequestBase returned
changedFiles ==
  IF cpc = "returned" THEN PromiseAll(fileObjs, settled) ELSE <<>>

(***************************************************************************)
(* Claims about handlePullRequestBase, checked under SpecContext.          *)
(***************************************************************************)
HasLockfileName(filename) ==
  \/ EndsWith(filename, <<"package-lock.json">>)
  \/ EndsWith(filename, <<"yarn.lock">>)
  \/ EndsWith(filename, <<"pnpm-lock.yaml">>)

\* C7: for every changed file of every PR Context handlePullRequestBase
\* returns, excluded is true if and only if content is absent.
C7_ExcludedIffContentAbsent ==
  \A i \in 1..Len(changedFiles) :
    changedFiles[i].excluded <=> (changedFiles[i].content = NoContent)

\* a returned context holding an excluded file and a file with content
C7_Witness ==
  /\ cpc = "returned"
  /\ \E i \in 1..Len(changedFiles) : changedFiles[i].excluded
  /\ \E i \in 1..Len(changedFiles) : IsContent(changedFiles[i].content)

\* C8: a changed file whose fetched content is longer than SIZE_THRESHOLD is
\* marked excluded and carries no content, whatever its status.
C8_LargeFileExcluded ==
  \A i \in 1..Len(fileObjs) :
    (fstate[i] = "done" /\ IsContent(fetched[i])
       /\ fetched[i].len > SIZE_THRESHOLD)
    => (fileObjs[i].excluded /\ fileObjs[i].content = NoContent)

\* a returned context with a file whose fetched content was 32,001 long
C8_Witness ==
  /\ cpc = "returned"
  /\ \E i \in 1..Len(fileObjs) :
       IsContent(fetched[i]) /\ fetched[i].len = SIZE_THRESHOLD + 1

\* C9: for every changed file that is not removed and has no lockfile name,
\* a fetch that answers a content of length L, 0 <= L <= 32,000, attaches
\* the content and leaves excluded false.
C9_SmallFileAttached ==
  \A i \in 1..Len(fileObjs) :
    (/\ fstate[i] = "done"
     /\ hostFiles[i].status # "removed"
     /\ ~HasLockfileName(hostFiles[i].filename)
     /\ IsContent(fetched[i])
     /\ 0 <= fetched[i].len /\ fetched[i].len <= SIZE_THRESHOLD)
    => (fileObjs[i].content = fetched[i] /\ ~fileObjs[i].excluded)

\* C10: a changed file with status 'removed', and one whose name ends in a
\* lockfile pattern, is marked excluded, carries no content, and no content
\* fetch is issued for it.
C10_RemovedAndLockfilesNotFetched ==
  \A i \in 1..Len(fileObjs) :
    (hostFiles[i].status = "removed" \/ HasLockfileName(hostFiles[i].filename))
    => /\ fileObjs[i].excluded
       /\ fileObjs[i].content = NoContent
       /\ fetched[i] = NotAsked
       /\ \A j \in 1..Len(fetchLog) : fetchLog[j] # i

\* a returned context with a removed source file and a lockfile in a
\* subdirectory that was not removed
C10_Witness ==
  /\ cpc = "returned"
  /\ \E i \in 1..Len(fileObjs) :
       hostFiles[i].status = "removed" /\ ~HasLockfileName(hostFiles[i].filename)
  /\ \E i \in 1..Len(fileObjs) :
       /\ hostFiles[i].status # "removed"
       /\ hostFiles[i].filename = <<"sub/", "yarn.lock">>

(***************************************************************************)
(* Inputs of SpecFinalize: proposals as parseTestXml builds them, changed  *)
(* files as handlePullRequestBase builds them.                             *)
(***************************************************************************)
Proposal(filename, action, oldFilename) ==
  [filename |-> filename, testType |-> "unit", testContent |-> "test",
   actions |-> [action |-> action, oldFilename |-> oldFilename]]

FinFilenames ==
  { <<"foo", ".test", ".ts">>,
    <<"__tests__/unit/", "foo", ".test", ".ts">>,
    <<"__tests__/unit/", "foo", ".test", ".ts", "x">>,
    <<"__tests__/e2e/", "foo", ".spec", ".ts">>,
    <<"__tests__/unit/", "foo", ".ts", "x">> }

FinProposalPool == {Proposal(f, "create", <<>>) : f \in FinFilenames}

FinFilePool ==
  { ChangedFile(<<"src/", "util", ".ts">>, "modified", Content(1, FALSE)),
    ChangedFile(<<"src/", "util", ".ts">>, "modified", Content(20000, TRUE)),
    ChangedFile(<<"foo">>, "added", Content(1, FALSE)),
    ChangedFile(<<"app/", "api/", "route", ".ts">>, "modified", Content(1, FALSE)),
    ChangedFile(<<"components/", "Button", ".ts", "x">>, "modified",
                Content(1, FALSE)),
    ChangedFile(<<"components/", "Button", ".ts", "x">>, "modified",
                Content(SIZE_THRESHOLD + 1, TRUE)),
    ChangedFile(<<"components/", "Button", ".ts", "x">>, "removed", NotAsked),
    ChangedFile(<<"src/", "empty", ".ts">>, "added", Content(0, FALSE)) }

FinInit ==
  /\ finProposals \in SeqsUpTo(FinProposalPool, MaxProposals) \ {<<>>}
  /\ finFiles \in SeqsUpTo(FinFilePool, MaxFiles)
  /\ finOut = <<>>
  /\ CtxIdle
  /\ MainIdle
  /\ RaceIdle

\* generateTestsForChanges line 194
FinApply ==
  /\ finOut = <<>>
  /\ finOut' = finalizeTestProposals(finProposals, finFiles)
  /\ UNCHANGED <<finProposals, finFiles>>
  /\ UNCHANGED <<ctxVars, mainVars, raceVars>>

FinNext == FinApply

SpecFinalize == FinInit /\ [][FinNext]_vars

(***************************************************************************)
(* Claims about finalizeTestProposals, checked under SpecFinalize.         *)
(***************************************************************************)
\* the classification as the specification words it: a changed file's name
\* equals the stripped target, or a changed file ends in .tsx, or its
\* content imports React, or its path is under app/
UIRelatedChange(proposal, files) ==
  \E i \in 1..Len(files) :
    \/ files[i].filename = StripTestMarkers(proposal.filename)
    \/ EndsWith(files[i].filename, <<".ts", "x">>)
    \/ (IsContent(files[i].content) /\ files[i].content.react)
    \/ Includes(files[i].filename, <<"app/">>)

\* C6: for every proposal and every changed-file list, the finalized
\* filename ends in .test.tsx if the changed code is UI-related and in
\* .test.ts otherwise.
C6_SuffixFollowsUIClassification ==
  finOut # <<>> =>
    \A k \in 1..Len(finOut) :
      IF UIRelatedChange(finProposals[k], finFiles)
        THEN EndsWith(finOut[k].filename, <<".test", ".ts", "x">>)
        ELSE /\ EndsWith(finOut[k].filename, <<".test", ".ts">>)
             /\ ~EndsWith(finOut[k].filename, <<".test", ".ts", "x">>)

\* the suffix the classification of the changed code calls for
SuffixCalledFor(proposal, files) ==
  IF UIRelatedChange(proposal, files) THEN TEST_TSX ELSE TEST_TS

\* C25: whatever filename the model emitted, also one ending in neither
\* suffix, the finalized filename ends in .test.ts or .test.tsx, and a name
\* whose ending disagrees with the classification of the changed code is
\* not returned as it was emitted.
C25_EveryNameIsNormalized ==
  finOut # <<>> =>
    \A k \in 1..Len(finOut) :
      /\ \/ EndsWith(finOut[k].filename, TEST_TS)
         \/ EndsWith(finOut[k].filename, TEST_TSX)
      /\ (LET wanted == SuffixCalledFor(finProposals[k], finFiles)
              emitted == finProposals[k].filename
          IN  (\/ ~EndsWith(emitted, wanted)
               \/ (wanted = TEST_TS /\ EndsWith(emitted, TEST_TSX)))
                => finOut[k].filename # emitted)

(***************************************************************************)
(* route.ts: POST.                                                         *)
(***************************************************************************)
Init ==
  /\ pc = "start"
  /\ req \in Requests
  /\ step = 1
  /\ ctx = <<>>
  /\ existingTestFiles = <<>>
  /\ testTree = NoTree
  /\ loc = [commentId |-> 0, analysis |-> NoAnalysis, gate |-> NoGate,
            proposals |-> <<>>, k |-> 1, held |-> 0]
  /\ \E b \in Branches, l \in {{}, {REVIEW_LABEL, TEST_GENERATION_LABEL}} :
       host = [comment |-> NoComment, branch |-> b, labels |-> l]
  /\ calls = <<>>
  /\ invoked = <<>>
  /\ run = [agent |-> "none", state |-> "none"]
  /\ response = "none"
  /\ CtxIdle
  /\ FinIdle
  /\ RaceIdle

Log(entry) == calls' = Append(calls, entry)

\* lines 22-41 mutated: 'opened' also takes the test-generation branch
RouteCondsOpenedRunsBoth(r) ==
  << r.eventType = "pull_request" /\ r.action = "opened",
     r.eventType = "pull_request" /\ r.action = "labeled"
       /\ r.label = REVIEW_LABEL,
     r.eventType = "pull_request"
       /\ (r.action = "opened"
             \/ (r.action = "labeled" /\ r.label = TEST_GENERATION_LABEL)) >>

\* lines 22-41: the conditions of the three agent invocations, in order
RouteConds(r) ==
  << r.eventType = "pull_request" /\ r.action = "opened",
     r.eventType = "pull_request" /\ r.action = "labeled"
       /\ r.label = REVIEW_LABEL,
     r.eventType = "pull_request" /\ r.action = "labeled"
       /\ r.label = TEST_GENERATION_LABEL >>

\* line 25 mutated: 'opened' runs the test generation agent
RouteAgentsOpenedRunsTests == <<"test", "review", "test">>

\* lines 25, 33, 38: the agent each of them runs
RouteAgents == <<"review", "review", "test">>

\* lines 17-18: request.text() and JSON.parse; a body that is not JSON
\* raises into the catch at line 44
Receive ==
  /\ pc = "start"
  /\ IF req.body = "json"
       THEN pc' = "route" /\ response' = response
       ELSE pc' = "done" /\ response' = "error"
  /\ UNCHANGED <<req, step, ctx, existingTestFiles, testTree, loc, host, calls, invoked,
                 run>>
  /\ UNCHANGED <<ctxVars, finVars, raceVars>>

\* lines 22-43: go to the next invocation whose condition holds, or answer
\* {message: "OK"}
Route ==
  /\ pc = "route"
  /\ LET todo == {j \in step..3 : RouteConds(req)[j]}
     IN IF todo = {}
          THEN /\ pc' = "done"
               /\ response' = "ok"
               /\ UNCHANGED <<step, run>>
          ELSE LET j == CHOOSE m \in todo : \A n \in todo : m <= n
               IN /\ pc' = "context"
                  /\ step' = j + 1
                  /\ run' = [agent |-> RouteAgents[j], state |-> "none"]
                  /\ response' = response
  /\ UNCHANGED <<req, ctx, existingTestFiles, testTree, loc, host, calls, invoked>>
  /\ UNCHANGED <<ctxVars, finVars, raceVars>>

ContextHandler ==
  IF run.agent = "test" THEN "handlePullRequestForTestAgent"
  ELSE "handlePullRequestBase"

AgentHandler ==
  IF run.agent = "test" THEN "handleTestGeneration" ELSE "handleReviewAgent"

\* handlePullRequestBase raises (a payload field is missing, or listFiles,
\* a content fetch or listCommits is rejected): POST answers the error
ContextThrows ==
  /\ pc = "context"
  /\ \/ /\ ~req.fields
        /\ calls' = calls
     \/ /\ req.fields
        /\ \E op \in {"listFiles", "getFileContent", "listCommits"} :
             calls' = calls
               \o (IF op = "listFiles" THEN <<>>
                   ELSE <<[op |-> "listFiles", res |-> "ok"]>>)
               \o (IF op = "listCommits"
                     THEN <<[op |-> "getFileContent", res |-> "ok"]>>
                     ELSE <<>>)
               \o <<[op |-> op, res |-> "error"]>>
  /\ invoked' = Append(invoked, ContextHandler)
  /\ pc' = "done"
  /\ response' = "error"
  /\ UNCHANGED <<req, step, ctx, existingTestFiles, testTree, loc, host, run>>
  /\ UNCHANGED <<ctxVars, finVars, raceVars>>

\* handlePullRequestBase returns the context: handleReviewAgent is called
\* with it, and handlePullRequestForTestAgent goes on to getAllTestFiles
ContextReturns ==
  /\ pc = "context"
  /\ req.fields
  /\ \E hl \in HostLists :
       /\ ctx' = [i \in 1..Len(hl) |->
                   ChangedFile(hl[i].filename, hl[i].status, hl[i].answer)]
       /\ calls' = calls \o <<[op |-> "listFiles", res |-> "ok"]>>
            \o [i \in 1..Len(hl) |-> [op |-> "getFileContent", res |-> "ok"]]
            \o <<[op |-> "listCommits", res |-> "ok"]>>
  /\ IF run.agent = "test"
       THEN /\ invoked' = Append(invoked, ContextHandler)
            /\ run' = run
            /\ pc' = "testFiles"
       ELSE /\ invoked' = invoked \o <<ContextHandler, AgentHandler>>
            /\ run' = [run EXCEPT !.state = "running"]
            /\ pc' = "r_create"
  /\ UNCHANGED <<req, step, existingTestFiles, testTree, loc, host, response>>
  /\ UNCHANGED <<ctxVars, finVars, raceVars>>

\* handlers.ts lines 218-228, route.ts line 38: getAllTestFiles walks the
\* test root, the context is returned and handleTestGeneration is called
\* with it; an error getAllTestFiles raised would reach POST's catch
ExistingTestFiles ==
  /\ pc = "testFiles"
  /\ \E tree \in TestTrees :
       LET walk == getAllTestFiles(tree)
       IN /\ calls' = calls \o walk.calls
          /\ IF walk.raised # "none"
               THEN /\ existingTestFiles' = existingTestFiles
                    /\ testTree' = tree
                    /\ invoked' = invoked
                    /\ run' = run
                    /\ pc' = "done"
                    /\ response' = "error"
               ELSE /\ existingTestFiles' = walk.files
                    /\ testTree' = tree
                    /\ invoked' = Append(invoked, AgentHandler)
                    /\ run' = [run EXCEPT !.state = "running"]
                    /\ pc' = "t_create"
                    /\ response' = response
  /\ UNCHANGED <<req, step, ctx, loc, host>>
  /\ UNCHANGED <<ctxVars, finVars, raceVars>>

(***************************************************************************)
(* Host calls the agents share.                                            *)
(***************************************************************************)
\* comments.ts lines 9-22: createPlaceholderComment answers an id or rejects
DoCreateComment(body, ok) ==
  /\ Log([op |-> "createComment", body |-> body,
          res |-> IF ok THEN "ok" ELSE "error"])
  /\ host' = IF ok THEN [host EXCEPT !.comment = body] ELSE host

\* comments.ts lines 24-36: updateComment
DoUpdateComment(body, ok) ==
  /\ Log([op |-> "updateComment", body |-> body,
          res |-> IF ok THEN "ok" ELSE "error"])
  /\ host' = IF ok THEN [host EXCEPT !.comment = body] ELSE host

\* handlers.ts lines 247-252: what issues.removeLabel answers: 404 when the
\* label is not on the PR, or any other rejection
RemoveLabelAnswer(label, rejected) ==
  IF rejected THEN "error"
  ELSE IF label \in host.labels THEN "ok" ELSE "404"

\* handlers.ts lines 253-258 mutated: every rejection is raised to the caller
RemoveLabelRethrowsAll(res) == res # "ok"

\* handlers.ts lines 255-257 mutated: an error other than 404 is raised
RemoveLabelRethrowsOthers(res) == res = "error"

\* handlers.ts lines 253-258: the catch ignores a 404, logs any other
\* error, and raises neither
RemoveLabelRethrows(res) == FALSE

\* handlers.ts lines 240-259: removeLabel
DoRemoveLabel(label, rejected) ==
  LET res == RemoveLabelAnswer(label, rejected)
  IN /\ Log([op |-> "removeLabel", label |-> label, res |-> res])
     /\ host' = IF res = "ok" THEN [host EXCEPT !.labels = @ \ {label}]
                ELSE host

\* the catch block mutated: it updates whether or not an id is held
CatchAlwaysUpdates(commentId) == TRUE

\* the catch block mutated: it never updates the comment
CatchNeverUpdates(commentId) == FALSE

\* github.ts line 277, test-agent.ts line 395
CatchUpdates(commentId) == commentId # 0

\* the handler returns to POST
Returns ==
  /\ run' = [run EXCEPT !.state = "returned"]
  /\ pc' = "route"
  /\ response' = response

\* route.ts lines 44-46 mutated: the catch answers OK
RaisesAnswersOk ==
  /\ run' = [run EXCEPT !.state = "threw"]
  /\ pc' = "done"
  /\ response' = "ok"

\* the handler raises out of its catch block: POST answers the error
Raises ==
  /\ run' = [run EXCEPT !.state = "threw"]
  /\ pc' = "done"
  /\ response' = "error"

Goes(to) ==
  /\ pc' = to
  /\ run' = run
  /\ response' = response

(***************************************************************************)
(* github.ts lines 256-286: handleReviewAgent.                             *)
(***************************************************************************)
\* line 262
RCreate ==
  /\ pc = "r_create"
  /\ \E ok \in BOOLEAN :
       /\ DoCreateComment(ReviewPlaceholder, ok)
       /\ loc' = IF ok THEN [loc EXCEPT !.commentId = 1] ELSE loc
       /\ Goes(IF ok THEN "r_generate" ELSE "r_catch")
  /\ UNCHANGED <<req, step, ctx, existingTestFiles, testTree, invoked>>
  /\ UNCHANGED <<ctxVars, finVars, raceVars>>

\* line 270: generateReview raises nothing
RGenerate ==
  /\ pc = "r_generate"
  /\ \E answer \in ReviewTexts \cup {ModelFailure} :
       /\ Log(TextCall(answer))
       /\ loc' = [loc EXCEPT !.analysis = generateReview(answer)]
  /\ Goes("r_update")
  /\ UNCHANGED <<req, step, ctx, existingTestFiles, testTree, host, invoked>>
  /\ UNCHANGED <<ctxVars, finVars, raceVars>>

\* line 271
RUpdate ==
  /\ pc = "r_update"
  /\ \E ok \in BOOLEAN :
       /\ DoUpdateComment(ReviewBody(loc.analysis), ok)
       /\ Goes(IF ok THEN "r_label" ELSE "r_catch")
  /\ UNCHANGED <<req, step, ctx, existingTestFiles, testTree, loc, invoked>>
  /\ UNCHANGED <<ctxVars, finVars, raceVars>>

\* line 274
RLabel ==
  /\ pc = "r_label"
  /\ \E rejected \in BOOLEAN :
       /\ DoRemoveLabel(REVIEW_LABEL, rejected)
       /\ IF RemoveLabelRethrows(RemoveLabelAnswer(REVIEW_LABEL, rejected))
            THEN Goes("r_catch") ELSE Returns
  /\ UNCHANGED <<req, step, ctx, existingTestFiles, testTree, loc, invoked>>
  /\ UNCHANGED <<ctxVars, finVars, raceVars>>

\* lines 275-285
RCatch ==
  /\ pc = "r_catch"
  /\ IF CatchUpdates(loc.commentId)
       THEN \E ok \in BOOLEAN :
              /\ DoUpdateComment(ReviewFailure, ok)
              /\ IF ok THEN Returns ELSE Raises
       ELSE /\ Returns
            /\ UNCHANGED <<host, calls>>
  /\ UNCHANGED <<req, step, ctx, existingTestFiles, testTree, loc, invoked>>
  /\ UNCHANGED <<ctxVars, finVars, raceVars>>

(***************************************************************************)
(* test-agent.ts lines 200-276: commitTestsToExistingBranch.               *)
(***************************************************************************)
\* lines 233, 271-272 mutated: a rejected call ends the loop as if all
\* proposals were committed
OnRejectionPostsResults == "t_result"

\* lines 233, 271-272 mutated: after a rejected call the loop goes on
OnRejectionGoesOn == "c_lookup"

\* lines 233, 271-272: a rejection other than a handled not-found is thrown
\* out of the loop, to the catch of handleTestGeneration
OnRejection == "t_catch"

\* lines 210-214 mutated: the old path is not compared with the new one
RenameNeedsDeleteAnyOld(proposal) ==
  /\ proposal.actions.action = "rename"
  /\ proposal.actions.oldFilename # <<>>

\* lines 210-214
RenameNeedsDelete(proposal) ==
  /\ proposal.actions.action = "rename"
  /\ proposal.actions.oldFilename # <<>>
  /\ proposal.actions.oldFilename # proposal.filename

\* line 222 mutated: the old file is found and left in place
OldFoundPcNoDelete(sha) == "c_lookup"

\* line 222: `"sha" in oldFile` holds for a file, not for a directory listing
OldFoundPc(sha) == IF sha > 0 THEN "c_delete" ELSE "c_lookup"

\* lines 382-384 mutated: the proposals are never committed
LoopPcNeverCommits(proposals, k) == "t_result"

\* line 206, 382: where the loop stands before proposal k
LoopPc(proposals, k) ==
  IF k > Len(proposals) THEN "t_result"
  ELSE IF RenameNeedsDelete(proposals[k]) THEN "c_old" ELSE "c_lookup"

\* line 206 mutated: every iteration takes the last proposal
CurrentIsLast == loc.proposals[Len(loc.proposals)]

\* line 206: the proposal of iteration k
Current == loc.proposals[loc.k]

\* a host call made for proposal k; role tells the lookup of the old path
\* (line 216) from the lookup of the target path (line 238)
FileCall(op, role, path, res) ==
  [op |-> op, role |-> role, path |-> path, k |-> loc.k, res |-> res]

\* the loop goes on to the next proposal
NextProposal ==
  /\ loc' = [loc EXCEPT !.k = @ + 1, !.held = 0]
  /\ Goes(LoopPc(loc.proposals, loc.k + 1))

\* lines 232-234 mutated: the catch rethrows every error
OldCatchPcRethrowsAll(status) == OnRejection

\* lines 232-234: the catch around the old-file lookup and the delete
\* rethrows every error but a not-found, after which the loop body goes on
OldCatchPc(status) == IF status # "404" THEN OnRejection ELSE "c_lookup"

\* lines 216-221: getContent of the old path
COld ==
  /\ pc = "c_old"
  /\ LET old == Current.actions.oldFilename
         sha == host.branch[old]
     IN \E rejected \in BOOLEAN :
          IF rejected
            THEN /\ Log(FileCall("getContent", "old", old, "error"))
                 /\ loc' = loc
                 /\ Goes(OldCatchPc("error"))
            ELSE IF sha = 0
              THEN /\ Log(FileCall("getContent", "old", old, "404"))
                   /\ loc' = loc
                   /\ Goes(OldCatchPc("404"))
              ELSE /\ Log(FileCall("getContent", "old", old,
                                   IF sha > 0 THEN "file" ELSE "dir"))
                   /\ loc' = [loc EXCEPT !.held = IF sha > 0 THEN sha ELSE 0]
                   /\ Goes(OldFoundPc(sha))
  /\ UNCHANGED <<req, step, ctx, existingTestFiles, testTree, host, invoked>>
  /\ UNCHANGED <<ctxVars, finVars, raceVars>>

\* lines 223-234: deleteFile with the hash found; a 404 is swallowed
CDelete ==
  /\ pc = "c_delete"
  /\ LET old == Current.actions.oldFilename
     IN \E fault \in {"none", "404", "error"} :
          /\ Log(FileCall("deleteFile", "old", old,
                          IF fault = "none" THEN "ok" ELSE fault))
          /\ host' = IF fault = "none"
                       THEN [host EXCEPT !.branch[old] = 0] ELSE host
          /\ Goes(IF fault = "none" THEN "c_lookup" ELSE OldCatchPc(fault))
  /\ loc' = [loc EXCEPT !.held = 0]
  /\ UNCHANGED <<req, step, ctx, existingTestFiles, testTree, invoked>>
  /\ UNCHANGED <<ctxVars, finVars, raceVars>>

\* line 255 mutated: the hash of the file found is never passed on
ShaPassedNever(sha) == 0

\* line 255: "sha" in existingFile ? existingFile.sha : undefined, for what
\* the branch holds at the path (a directory listing has no sha)
ShaPassed(sha) == IF sha > 0 THEN sha ELSE 0

\* lines 238-243, 257-258: getContent of the target path
CLookup ==
  /\ pc = "c_lookup"
  /\ LET sha == host.branch[Current.filename]
         path == Current.filename
     IN \E rejected \in BOOLEAN :
          IF rejected
            THEN /\ Log(FileCall("getContent", "target", path, "error"))
                 /\ loc' = loc
                 /\ Goes(OnRejection)
            ELSE IF sha = 0
              THEN /\ Log(FileCall("getContent", "target", path, "404"))
                   /\ loc' = loc
                   /\ Goes("c_create")
              ELSE /\ Log(FileCall("getContent", "target", path,
                                   IF sha > 0 THEN "file" ELSE "dir"))
                   /\ loc' = [loc EXCEPT !.held = ShaPassed(sha)]
                   /\ Goes("c_write")
  /\ UNCHANGED <<req, step, ctx, existingTestFiles, testTree, host, invoked>>
  /\ UNCHANGED <<ctxVars, finVars, raceVars>>

\* the host's answer to createOrUpdateFileContents(path, sha): the blob hash
\* must be the file's current one, and absent for a new file
WriteAccepted(path, sha) ==
  \/ host.branch[path] = 0 /\ sha = 0
  \/ host.branch[path] > 0 /\ sha = host.branch[path]

Written(path) ==
  [host EXCEPT !.branch[path] = IF @ > 0 THEN @ + 1 ELSE 1]

\* lines 248-256: createOrUpdateFileContents inside the try block; a 404
\* answer is caught at line 258 like a 404 of the lookup
CWrite ==
  /\ pc = "c_write"
  /\ LET path == Current.filename
     IN \E fault \in {"none", "404", "error"} :
          LET res == IF fault # "none" THEN fault
                     ELSE IF WriteAccepted(path, loc.held) THEN "ok"
                     ELSE "error"
          IN /\ Log([op |-> "createOrUpdateFileContents", path |-> path,
                     k |-> loc.k, sha |-> loc.held, res |-> res])
             /\ host' = IF res = "ok" THEN Written(path) ELSE host
             /\ IF res = "ok" THEN NextProposal
                ELSE /\ loc' = loc
                     /\ Goes(IF res = "404" THEN "c_create" ELSE OnRejection)
  /\ UNCHANGED <<req, step, ctx, existingTestFiles, testTree, invoked>>
  /\ UNCHANGED <<ctxVars, finVars, raceVars>>

\* lines 259-270: createOrUpdateFileContents without a hash, in the catch
CCreate ==
  /\ pc = "c_create"
  /\ LET path == Current.filename
     IN \E fault \in {"none", "404", "error"} :
          LET res == IF fault # "none" THEN fault
                     ELSE IF WriteAccepted(path, 0) THEN "ok" ELSE "error"
          IN /\ Log([op |-> "createOrUpdateFileContents", path |-> path,
                     k |-> loc.k, sha |-> 0, res |-> res])
             /\ host' = IF res = "ok" THEN Written(path) ELSE host
             /\ IF res = "ok" THEN NextProposal
                ELSE /\ loc' = loc
                     /\ Goes(OnRejection)
  /\ UNCHANGED <<req, step, ctx, existingTestFiles, testTree, invoked>>
  /\ UNCHANGED <<ctxVars, finVars, raceVars>>

(***************************************************************************)
(* test-agent.ts lines 356-404: handleTestGeneration.                      *)
(***************************************************************************)
\* line 371 mutated: generation proceeds whatever the gate said
AfterGatePcAlwaysGenerate(gate) == "t_generate"

\* line 371
AfterGatePc(gate) == IF ~gate.shouldGenerate THEN "t_skip" ELSE "t_generate"

\* line 363
TCreate ==
  /\ pc = "t_create"
  /\ \E ok \in BOOLEAN :
       /\ DoCreateComment(TestPlaceholder, ok)
       /\ loc' = IF ok THEN [loc EXCEPT !.commentId = 1] ELSE loc
       /\ Goes(IF ok THEN "t_gate" ELSE "t_catch")
  /\ UNCHANGED <<req, step, ctx, existingTestFiles, testTree, invoked>>
  /\ UNCHANGED <<ctxVars, finVars, raceVars>>

\* line 370: gatingStep raises nothing
TGate ==
  /\ pc = "t_gate"
  /\ \E answer \in GateAnswers \cup {ModelFailure} :
       /\ Log([op |-> "generateObject",
               res |-> IF answer = ModelFailure THEN "error" ELSE "ok"])
       /\ loc' = [loc EXCEPT !.gate = gatingStep(answer)]
       /\ Goes(AfterGatePc(gatingStep(answer)))
  /\ UNCHANGED <<req, step, ctx, existingTestFiles, testTree, host, invoked>>
  /\ UNCHANGED <<ctxVars, finVars, raceVars>>

\* lines 372-378
TSkip ==
  /\ pc = "t_skip"
  /\ \E ok \in BOOLEAN :
       /\ DoUpdateComment(SkipBody(loc.gate.reason), ok)
       /\ IF ok THEN Returns ELSE Goes("t_catch")
  /\ UNCHANGED <<req, step, ctx, existingTestFiles, testTree, loc, invoked>>
  /\ UNCHANGED <<ctxVars, finVars, raceVars>>

\* lines 381-384: generateTestsForChanges raises nothing
TGenerate ==
  /\ pc = "t_generate"
  /\ \E answer \in TestTexts \cup {ModelFailure} :
       LET testProposals == generateTestsForChanges(ctx, answer)
       IN /\ Log(TextCall(answer))
          /\ loc' = [loc EXCEPT !.proposals = testProposals, !.k = 1]
          /\ Goes(LoopPc(testProposals, 1))
  /\ UNCHANGED <<req, step, ctx, existingTestFiles, testTree, host, invoked>>
  /\ UNCHANGED <<ctxVars, finVars, raceVars>>

\* lines 386-392
TResult ==
  /\ pc = "t_result"
  /\ \E ok \in BOOLEAN :
       /\ DoUpdateComment(ResultsBody(loc.proposals), ok)
       /\ Goes(IF ok THEN "t_label" ELSE "t_catch")
  /\ UNCHANGED <<req, step, ctx, existingTestFiles, testTree, loc, invoked>>
  /\ UNCHANGED <<ctxVars, finVars, raceVars>>

\* line 393
TLabel ==
  /\ pc = "t_label"
  /\ \E rejected \in BOOLEAN :
       /\ DoRemoveLabel(TEST_GENERATION_LABEL, rejected)
       /\ IF RemoveLabelRethrows(
               RemoveLabelAnswer(TEST_GENERATION_LABEL, rejected))
            THEN Goes("t_catch") ELSE Returns
  /\ UNCHANGED <<req, step, ctx, existingTestFiles, testTree, loc, invoked>>
  /\ UNCHANGED <<ctxVars, finVars, raceVars>>

\* lines 394-403
TCatch ==
  /\ pc = "t_catch"
  /\ IF CatchUpdates(loc.commentId)
       THEN \E ok \in BOOLEAN :
              /\ DoUpdateComment(TestFailure, ok)
              /\ IF ok THEN Returns ELSE Raises
       ELSE /\ Returns
            /\ UNCHANGED <<host, calls>>
  /\ UNCHANGED <<req, step, ctx, existingTestFiles, testTree, loc, invoked>>
  /\ UNCHANGED <<ctxVars, finVars, raceVars>>

Next ==
  \/ Receive
  \/ Route
  \/ ContextThrows
  \/ ContextReturns
  \/ ExistingTestFiles
  \/ RCreate
  \/ RGenerate
  \/ RUpdate
  \/ RLabel
  \/ RCatch
  \/ TCreate
  \/ TGate
  \/ TSkip
  \/ TGenerate
  \/ COld
  \/ CDelete
  \/ CLookup
  \/ CWrite
  \/ CCreate
  \/ TResult
  \/ TLabel
  \/ TCatch

Spec == Init /\ [][Next]_vars

(***************************************************************************)
(* Claims about POST and the agents, checked under Spec.                   *)
(***************************************************************************)
CallsOf(op) == SelectSeq(calls, LAMBDA c : c.op = op)

NoCallOf(ops) == \A i \in 1..Len(calls) : calls[i].op \notin ops

\* the agent POST called has returned or raised
Finished == run.state \in {"returned", "threw"}

\* C1: in every run of handleReviewAgent and handleTestGeneration in which
\* the placeholder was created, when the handler finishes the comment is a
\* completed result, a skip notice or the failure message; it is still the
\* placeholder only when the update with the failure message was itself
\* rejected.
C1_NeverLeftInProgress ==
  (Finished /\ loc.commentId # 0) =>
    LET ups == CallsOf("updateComment")
    IN \/ host.comment.kind \in
            {"review", "results", "noProposals", "skip", "failure"}
       \/ /\ host.comment.kind = "placeholder"
          /\ Len(ups) > 0
          /\ ups[Len(ups)].body.kind = "failure"
          /\ ups[Len(ups)].res = "error"

\* handleTestGeneration returned after a rejected write, a rejected delete
\* or a rejected lookup, and the comment holds the failure message
C1_Witness ==
  /\ run = [agent |-> "test", state |-> "returned"]
  /\ host.comment = TestFailure
  /\ \E i \in 1..Len(calls) :
       /\ calls[i].op = "createOrUpdateFileContents"
       /\ calls[i].res = "error"

OpenedDelivery ==
  /\ req.body = "json"
  /\ req.eventType = "pull_request"
  /\ req.action = "opened"

TestPathInvoked ==
  \E i \in 1..Len(invoked) :
    invoked[i] \in {"handlePullRequestForTestAgent", "handleTestGeneration"}

ReviewLabelRemovals ==
  SelectSeq(calls, LAMBDA c : c.op = "removeLabel" /\ c.label = REVIEW_LABEL)

\* C2 as stated: a pull_request webhook with action 'opened' triggers
\* exactly one comment creation, exactly one comment update and exactly one
\* label-removal call for the review label, and the test-generation path is
\* not invoked.
C2_OpenedExactlyOnce ==
  (OpenedDelivery /\ req.fields /\ response # "none") =>
    /\ Len(CallsOf("createComment")) = 1
    /\ Len(CallsOf("updateComment")) = 1
    /\ Len(ReviewLabelRemovals) = 1
    /\ ~TestPathInvoked

\* C2 as amended: a pull_request webhook with action 'opened' never invokes
\* the test-generation path and triggers at most one comment creation, at
\* most two comment updates and at most one label-removal call; when the
\* placeholder is created and the review update is accepted, it triggers
\* exactly one creation, exactly one update and exactly one label-removal
\* call, which is for the review label.
C2_OpenedReviewOnce ==
  (OpenedDelivery /\ response # "none") =>
    LET creates == CallsOf("createComment")
        ups == CallsOf("updateComment")
    IN /\ ~TestPathInvoked
       /\ Len(creates) <= 1
       /\ Len(ups) <= 2
       /\ Len(ReviewLabelRemovals) <= 1
       /\ Len(CallsOf("removeLabel")) = Len(ReviewLabelRemovals)
       /\ (/\ Len(creates) = 1 /\ creates[1].res = "ok"
           /\ Len(ups) > 0 /\ ups[1].res = "ok")
          => (Len(ups) = 1 /\ Len(ReviewLabelRemovals) = 1)

\* POST answered OK to an 'opened' delivery after one creation, one update
\* with the review and one removal of the review label
C2_Witness ==
  /\ OpenedDelivery
  /\ response = "ok"
  /\ Len(CallsOf("createComment")) = 1
  /\ Len(CallsOf("updateComment")) = 1
  /\ host.comment.kind = "review"
  /\ Len(ReviewLabelRemovals) = 1

\* gatingStep has answered shouldGenerate = false
GateDeclined ==
  /\ Len(CallsOf("generateObject")) > 0
  /\ ~loc.gate.shouldGenerate

GateFailed ==
  \E i \in 1..Len(calls) :
    calls[i].op = "generateObject" /\ calls[i].res = "error"

\* C4: if the gating model call fails, gatingStep returns shouldGenerate =
\* false with reason 'Error in gating check', and the run makes no
\* generation call and writes or deletes no file.
C4_FailedGateNeverGenerates ==
  GateFailed =>
    /\ loc.gate.shouldGenerate = FALSE
    /\ loc.gate.reason = "Error in gating check"
    /\ NoCallOf({"generateText", "deleteFile", "createOrUpdateFileContents"})

\* the gating call failed and the handler returned with the skip notice
C4_Witness ==
  /\ GateFailed
  /\ run = [agent |-> "test", state |-> "returned"]
  /\ host.comment = SkipBody("Error in gating check")

\* proposal j is a rename whose old-file lookup found a file
RenameFound(j) ==
  /\ loc.proposals[j].actions.action = "rename"
  /\ \E i \in 1..Len(calls) :
       /\ calls[i].op = "getContent"
       /\ calls[i].k = j
       /\ calls[i].role = "old"
       /\ calls[i].path = loc.proposals[j].actions.oldFilename
       /\ calls[i].res = "file"

Deletes(j) ==
  {i \in 1..Len(calls) : calls[i].op = "deleteFile" /\ calls[i].k = j}

Writes(j) ==
  {i \in 1..Len(calls) :
     calls[i].op = "createOrUpdateFileContents" /\ calls[i].k = j}

\* a lookup or the delete of proposal j was rejected with an error other
\* than not-found: the loop stops before the write
StoppedBeforeWrite(j) ==
  \E i \in 1..Len(calls) :
    /\ calls[i].op \in {"getContent", "deleteFile"}
    /\ calls[i].k = j
    /\ calls[i].res = "error"

\* the create/update call that follows a successful lookup of the new path
\* of proposal j was answered not-found
FirstWriteNotFound(j) ==
  \E w \in Writes(j) :
    /\ calls[w].res = "404"
    /\ calls[w - 1].op = "getContent"
    /\ calls[w - 1].res \in {"file", "dir"}

\* C5 as stated: a rename proposal whose oldFilename is found on the branch
\* results in exactly one delete call for the old path followed by exactly
\* one create/update call for the new path, in that order.
C5_RenameOneDeleteOneWrite ==
  Finished =>
    \A j \in 1..Len(loc.proposals) :
      RenameFound(j) =>
        /\ Cardinality(Deletes(j)) = 1
        /\ Cardinality(Writes(j)) = 1
        /\ \A d \in Deletes(j), w \in Writes(j) :
             /\ calls[d].path = loc.proposals[j].actions.oldFilename
             /\ calls[w].path = loc.proposals[j].filename
             /\ d < w

\* C5 as amended: a rename proposal whose old-file lookup finds a file (the
\* lookup is made only when oldFilename is present and differs from the
\* finalized filename) results in exactly one delete call for the old path;
\* every create/update call of the proposal is for the new path and comes
\* after the delete; no create/update call is made when the delete or the
\* lookup of the new path is rejected, exactly one otherwise, except that a
\* first create/update call answered not-found is repeated once.
C5_RenameDeletesThenWrites ==
  Finished =>
    \A j \in 1..Len(loc.proposals) :
      RenameFound(j) =>
        /\ loc.proposals[j].actions.oldFilename # loc.proposals[j].filename
        /\ Cardinality(Deletes(j)) = 1
        /\ \A d \in Deletes(j) :
             calls[d].path = loc.proposals[j].actions.oldFilename
        /\ \A d \in Deletes(j), w \in Writes(j) :
             calls[w].path = loc.proposals[j].filename /\ d < w
        /\ Cardinality(Writes(j)) =
             IF StoppedBeforeWrite(j) THEN 0
             ELSE IF FirstWriteNotFound(j) THEN 2
             ELSE 1

\* a run that found the old file of a rename, deleted it and wrote the new
\* path, each call accepted
C5_Witness ==
  /\ Finished
  /\ \E j \in 1..Len(loc.proposals) :
       /\ RenameFound(j)
       /\ \E d \in Deletes(j) : calls[d].res = "ok"
       /\ \E w \in Writes(j) : calls[w].res = "ok"

\* the host answered not-found for the listing of the test root
TestRootNotFound ==
  \E i \in 1..Len(calls) :
    /\ calls[i].op = "getContent"
    /\ calls[i].k = 0
    /\ calls[i].path = TESTS_DIR
    /\ calls[i].res = "404"

\* C11: when the host reports not-found for the test root '__tests__',
\* getAllTestFiles returns an empty list and raises nothing:
\* handlePullRequestForTestAgent returns a context whose existingTestFiles
\* is empty and POST goes on to call handleTestGeneration with it.
C11_MissingTestRootIsEmpty ==
  TestRootNotFound =>
    /\ existingTestFiles = <<>>
    /\ invoked = <<"handlePullRequestForTestAgent", "handleTestGeneration">>
    /\ run.agent = "test" /\ run.state # "none"

\* the test root is missing and handleTestGeneration ran to its end
C11_Witness ==
  /\ TestRootNotFound
  /\ run = [agent |-> "test", state |-> "returned"]
  /\ response = "ok"

(***************************************************************************)
(* removeLabel called again and again on one PR, checked under SpecLabel.  *)
(***************************************************************************)
MaxRemovals == 3

LabelInit ==
  /\ pc = "label"
  /\ req = [body |-> "json", fields |-> TRUE, title |-> TRUE,
            eventType |-> "issues",
            action |-> "closed", label |-> "bug"]
  /\ step = 1
  /\ ctx = <<>>
  /\ existingTestFiles = <<>>
  /\ testTree = NoTree
  /\ loc = [commentId |-> 0, analysis |-> NoAnalysis, gate |-> NoGate,
            proposals |-> <<>>, k |-> 1, held |-> 0]
  /\ \E l \in SUBSET {REVIEW_LABEL, TEST_GENERATION_LABEL, "bug"} :
       host = [comment |-> NoComment, branch |-> [p \in Paths |-> 0],
               labels |-> l]
  /\ calls = <<>>
  /\ invoked = <<>>
  /\ run = [agent |-> "none", state |-> "none"]
  /\ response = "none"
  /\ CtxIdle
  /\ FinIdle
  /\ RaceIdle

\* one more call of removeLabel; pc records whether it raised
LabelRemove ==
  /\ pc = "label"
  /\ Len(calls) < MaxRemovals
  /\ \E label \in {REVIEW_LABEL, TEST_GENERATION_LABEL}, rejected \in BOOLEAN :
       /\ DoRemoveLabel(label, rejected)
       /\ pc' = IF RemoveLabelRethrows(RemoveLabelAnswer(label, rejected))
                  THEN "raised" ELSE "label"
  /\ UNCHANGED <<req, step, ctx, existingTestFiles, testTree, loc, invoked, run,
                 response>>
  /\ UNCHANGED <<ctxVars, finVars, raceVars>>

LabelNext == LabelRemove

SpecLabel == LabelInit /\ [][LabelNext]_vars

\* C12: removeLabel never raises, whether the host answers 404 (the label
\* is already absent) or any other error; a removal of an absent label is
\* answered 404 or rejected, changes no label and may be repeated any
\* number of times.
C12_RemoveLabelNeverRaises ==
  /\ pc = "label"
  /\ \A i \in 1..Len(calls) :
       /\ calls[i].op = "removeLabel"
       /\ calls[i].res \in {"ok", "404", "error"}
       /\ calls[i].res = "ok" =>
            \A j \in (i + 1)..Len(calls) :
              calls[j].label = calls[i].label => calls[j].res # "ok"
  /\ \A i \in 1..Len(calls) :
       calls[i].res = "ok" => calls[i].label \notin host.labels

\* the same label removed three times: accepted once, then answered 404 and
\* rejected with another error, and none of the calls raised
C12_Witness ==
  /\ pc = "label"
  /\ Len(calls) = 3
  /\ \A i \in 1..3 : calls[i].label = REVIEW_LABEL
  /\ calls[1].res = "ok"
  /\ \E i, j \in 2..3 : calls[i].res = "404" /\ calls[j].res = "error"

(***************************************************************************)
(* Further claims about POST and the agents, checked under Spec.           *)
(***************************************************************************)
\* a model call answered a text without the opening tag, without the
\* closing tag, or without both
LacksBlock(c) ==
  /\ c.op = "generateText"
  /\ c.res = "ok"
  /\ c.startIndex = -1 \/ c.endTagIndex = -1

\* C13: for every model text that lacks the outer tagged block (opening
\* tag missing, closing tag missing, or both), the review agent gets a
\* warning summary with empty fileAnalyses and overallSuggestions and the
\* test agent gets an empty proposal list; no exception reaches the agent:
\* its next call is the comment update with that result.
C13_MissingBlockYieldsEmpty ==
  \A i \in 1..Len(calls) :
    LacksBlock(calls[i]) =>
      /\ run.agent = "review" =>
           /\ loc.analysis.summary \in {"Could not parse AI response.",
                                        "Parsing error from AI response."}
           /\ loc.analysis.fileAnalyses = <<>>
           /\ loc.analysis.overallSuggestions = <<>>
           /\ i = Len(calls) => pc = "r_update"
           /\ i < Len(calls) =>
                /\ calls[i + 1].op = "updateComment"
                /\ calls[i + 1].body = ReviewBody(loc.analysis)
      /\ run.agent = "test" =>
           /\ loc.proposals = <<>>
           /\ i = Len(calls) => pc = "t_result"
           /\ i < Len(calls) =>
                /\ calls[i + 1].op = "updateComment"
                /\ calls[i + 1].body = ResultsBody(<<>>)

\* the review model answered a text with the opening tag and no closing
\* tag, and the review agent returned with the warning in the comment
C13_Witness ==
  /\ run = [agent |-> "review", state |-> "returned"]
  /\ \E i \in 1..Len(calls) :
       /\ LacksBlock(calls[i])
       /\ calls[i].startIndex >= 0
  /\ host.comment = ReviewBody(Fallback("Parsing error from AI response."))

\* an exception escaped to POST's catch: the body is not JSON, the context
\* handler raised, or the agent handler raised
ExceptionEscaped ==
  \/ req.body # "json"
  \/ /\ invoked # <<>>
     /\ invoked[Len(invoked)] \in {"handlePullRequestBase",
                                   "handlePullRequestForTestAgent"}
  \/ run.state = "threw"

\* the delivery selects no agent
NoAgentSelected ==
  \/ req.eventType # "pull_request"
  \/ req.action \notin {"opened", "labeled"}
  \/ /\ req.action = "labeled"
     /\ req.label \notin {REVIEW_LABEL, TEST_GENERATION_LABEL}

\* C14: POST returns exactly one response per request: once returned the
\* response never changes; it is {message: 'OK'} whenever no exception
\* escaped, including for deliveries that select no agent, for which no
\* host or model call is made, and {error} with status 500 whenever an
\* exception escaped.
C14_OneResponsePerRequest ==
  /\ [](/\ (pc = "done") <=> (response # "none")
        /\ response = "ok" => ~ExceptionEscaped
        /\ response = "error" => ExceptionEscaped
        /\ (req.body = "json" /\ NoAgentSelected) =>
             /\ calls = <<>>
             /\ invoked = <<>>
             /\ response # "error")
  /\ [][response # "none" => response' = response]_vars

\* a delivery labeled with another label was answered OK without any call
C14_Witness ==
  /\ req.body = "json"
  /\ req.eventType = "pull_request"
  /\ req.action = "labeled"
  /\ req.label = "bug"
  /\ response = "ok"
  /\ calls = <<>>

\* C15 as stated: on a pull_request event with action 'opened' the
\* dispatcher invokes both the Review Agent and the Test Generation Agent,
\* in sequence.
C15_OpenedRunsBothAgents ==
  (OpenedDelivery /\ req.fields /\ response = "ok") =>
    \E i, j \in 1..Len(invoked) :
      /\ i < j
      /\ invoked[i] = "handleReviewAgent"
      /\ invoked[j] = "handleTestGeneration"

\* C15 as amended: on a pull_request event with action 'opened' the
\* dispatcher builds the base context and invokes the Review Agent only;
\* the Test Generation Agent is not invoked.
C15_OpenedRunsReviewOnly ==
  OpenedDelivery =>
    /\ Len(invoked) <= 2
    /\ \A i \in 1..Len(invoked) :
         invoked[i] = <<"handlePullRequestBase", "handleReviewAgent">>[i]
    /\ (req.fields /\ response = "ok") => Len(invoked) = 2
    /\ run.agent \in {"none", "review"}

\* an 'opened' delivery answered OK after the Review Agent alone ran
C15_Witness ==
  /\ OpenedDelivery
  /\ response = "ok"
  /\ invoked = <<"handlePullRequestBase", "handleReviewAgent">>
  /\ run = [agent |-> "review", state |-> "returned"]

\* the payload lacks a required field: an object the context builder reads
\* from, or the PR title
FieldAbsent == ~req.fields \/ ~req.title

\* C16: a body that is not valid JSON, or a pull_request payload (of a
\* delivery that selects an agent) in which a required field is absent,
\* makes the dispatch answer the HTTP error response, and no comment is
\* created on the PR.
C16_MalformedPayloadFails ==
  (/\ pc = "done"
   /\ \/ req.body # "json"
      \/ FieldAbsent /\ ~NoAgentSelected) =>
    /\ response = "error"
    /\ NoCallOf({"createComment"})

\* C17: POST answers the HTTP error response only for payload-parsing
\* failures (a body that is not JSON, a payload without the objects the
\* context builder reads from): no failure of a host call or of a model
\* call, during context construction or inside an agent, produces it.
C17_ErrorOnlyForPayloadFailures ==
  response = "error" =>
    /\ req.body # "json" \/ ~req.fields
    /\ \A i \in 1..Len(calls) : calls[i].res # "error"

\* github.ts lines 241-245: what generateReview returns when the model fails
CannedFailure ==
  Fallback("We were unable to analyze the code due to an internal error.")

\* call i is the review agent's generateText, and it failed
ReviewModelFailedAt(i) ==
  /\ run.agent = "review"
  /\ calls[i].op = "generateText"
  /\ calls[i].res = "error"

RaisedAt(i) ==
  /\ run.agent = "test"
  /\ \/ /\ calls[i].op = "updateComment"
        /\ calls[i].body.kind \in {"skip", "results", "noProposals"}
        /\ calls[i].res = "error"
     \/ /\ calls[i].op \in {"getContent", "deleteFile"}
        /\ calls[i].k > 0
        /\ calls[i].res = "error"
     \/ /\ calls[i].op = "createOrUpdateFileContents"
        /\ \/ calls[i].res = "error"
           \/ /\ calls[i].res = "404"
              /\ ~(/\ calls[i - 1].op = "getContent"
                   /\ calls[i - 1].res \in {"file", "dir"})

\* C19 as stated: in handleTestGeneration, if any step after the
\* placeholder creation raises, the placeholder comment is overwritten with
\* the generic failure message and removeLabel is not called in that run.
C19_RaiseOverwritesPlaceholder ==
  \A i \in 1..Len(calls) :
    (RaisedAt(i) /\ Finished) =>
      /\ host.comment.kind = "failure"
      /\ NoCallOf({"removeLabel"})

\* C19 as amended: in handleTestGeneration, if any step after the
\* placeholder creation raises (skip-comment update, commit step,
\* result-comment update), the next and last call of the run is the update
\* of the comment with the generic failure message, and removeLabel is not
\* called; the comment holds the failure message when the host accepts
\* that update, and stays the placeholder, with the handler raising, when
\* the host rejects it.
C19_RaiseLeadsToFailureUpdate ==
  \A i \in 1..Len(calls) :
    RaisedAt(i) =>
      /\ NoCallOf({"removeLabel"})
      /\ i = Len(calls) => pc = "t_catch"
      /\ i < Len(calls) =>
           /\ Len(calls) = i + 1
           /\ calls[i + 1].op = "updateComment"
           /\ calls[i + 1].body.kind = "failure"
           /\ calls[i + 1].res = "ok" =>
                host.comment.kind = "failure" /\ run.state = "returned"
           /\ calls[i + 1].res = "error" =>
                host.comment.kind = "placeholder" /\ run.state = "threw"

\* the update with the results was rejected after the tests were committed,
\* and the comment now holds the failure message
C19_Witness ==
  /\ run = [agent |-> "test", state |-> "returned"]
  /\ host.comment.kind = "failure"
  /\ \E i \in 1..Len(calls) :
       /\ RaisedAt(i)
       /\ calls[i].op = "updateComment"
       /\ calls[i].body.kind = "results"

\* call i is a host call of the commit step, for proposal calls[i].k, that
\* the host rejected with an error other than not-found
CommitErrorAt(i) ==
  /\ calls[i].op \in {"getContent", "deleteFile",
                      "createOrUpdateFileContents"}
  /\ calls[i].k > 0
  /\ calls[i].res = "error"

CommitErrorArose == \E i \in 1..Len(calls) : CommitErrorAt(i)

\* C20: in the commit step, once the host has returned an error other than
\* not-found for proposal k, no host read or write is issued for any later
\* proposal (nor any further one for k), the new path of proposal k is not
\* written when the error arose before its write, every proposal before k
\* had its write accepted, and nothing is deleted or reverted afterwards:
\* the branch stays as it was when the error arose.
C20_CommitErrorAborts ==
  /\ [](\A i \in 1..Len(calls) :
          CommitErrorAt(i) =>
            /\ \A m \in (i + 1)..Len(calls) : calls[m].op = "updateComment"
            /\ \A m \in 1..Len(calls) :
                 calls[m].op \in {"getContent", "deleteFile",
                                  "createOrUpdateFileContents"}
                   => calls[m].k <= calls[i].k
            /\ calls[i].op # "createOrUpdateFileContents"
                 => Writes(calls[i].k) = {}
            /\ \A j \in 1..(calls[i].k - 1) :
                 \E w \in Writes(j) : calls[w].res = "ok")
  /\ [][CommitErrorArose => host'.branch = host.branch]_vars

\* the first proposal was written, the lookup for the second was rejected,
\* the run is over and the first proposal's file is on the branch
C20_Witness ==
  /\ Finished
  /\ \E i \in 1..Len(calls) :
       /\ CommitErrorAt(i)
       /\ calls[i].k = 2
       /\ calls[i].op = "getContent"
  /\ host.branch[loc.proposals[1].filename] > 0

\* call m is a repository call of the commit step
IsCommitCall(m) ==
  /\ calls[m].op \in {"getContent", "deleteFile",
                      "createOrUpdateFileContents"}
  /\ calls[m].k > 0

\* the path proposal k prescribes for call m
PrescribedPath(m) ==
  LET proposal == loc.proposals[calls[m].k]
  IN IF calls[m].op = "deleteFile" THEN proposal.actions.oldFilename
     ELSE IF calls[m].op = "getContent" /\ calls[m].role = "old"
       THEN proposal.actions.oldFilename
     ELSE proposal.filename

\* call d deleted path p, and call n > d is a later proposal's lookup of p
\* as its target, with no accepted write of p in between
ReCreateAfterDelete(d, n) ==
  /\ calls[d].op = "deleteFile"
  /\ calls[d].res = "ok"
  /\ d < n
  /\ calls[n].op = "getContent"
  /\ calls[n].k > calls[d].k
  /\ calls[n].role = "target"
  /\ calls[n].path = calls[d].path
  /\ \A w \in (d + 1)..(n - 1) :
       ~(/\ calls[w].op = "createOrUpdateFileContents"
         /\ calls[w].path = calls[d].path
         /\ calls[w].res = "ok")

\* C21: in the commit step the proposals are applied in the order of the
\* finalized list, one after the other: every host call of proposal i is
\* made and answered before the first call of proposal i+1, each call is
\* for the path its proposal prescribes, and a re-create at a path that an
\* earlier rename deleted observes the delete: its lookup answers not-found
\* and its write carries no hash.
C21_ProposalsAppliedInOrder ==
  /\ \A m, n \in 1..Len(calls) :
       (IsCommitCall(m) /\ IsCommitCall(n) /\ m < n) =>
         calls[m].k <= calls[n].k
  /\ \A m \in 1..Len(calls) :
       IsCommitCall(m) =>
         /\ calls[m].k <= Len(loc.proposals)
         /\ calls[m].path = PrescribedPath(m)
  /\ \A d, n \in 1..Len(calls) :
       ReCreateAfterDelete(d, n) =>
         /\ calls[n].res \in {"404", "error"}
         /\ n < Len(calls) /\ calls[n].res = "404" =>
              /\ calls[n + 1].op = "createOrUpdateFileContents"
              /\ calls[n + 1].sha = 0

\* a rename deleted foo.test.ts, the next proposal re-created it: its
\* lookup answered not-found and its write without a hash was accepted
C21_Witness ==
  \E d, n \in 1..Len(calls) :
    /\ ReCreateAfterDelete(d, n)
    /\ calls[n].res = "404"
    /\ n < Len(calls)
    /\ calls[n + 1].op = "createOrUpdateFileContents"
    /\ calls[n + 1].res = "ok"

(***************************************************************************)
(* Further claims about handlePullRequestBase, checked under SpecContext.  *)
(***************************************************************************)
\* C22: a changed file whose content fetch fails, for any host error, is
\* surfaced in the PR Context as excluded with no content, like a file that
\* is too large, and context construction does not fail because of it: the
\* context it returns contains every changed file.
C22_FailedFetchIsExcluded ==
  \A i \in 1..Len(fetched) :
    fetched[i] = FetchError =>
      /\ cpc # "threw"
      /\ fileObjs[i].excluded
      /\ fileObjs[i].content = NoContent
      /\ cpc = "returned" => Len(changedFiles) = Len(hostFiles)

(***************************************************************************)
(* Further claims about the agents, checked under Spec.                    *)
(***************************************************************************)
\* C23: in handleReviewAgent a failing label removal (404 or any other
\* host error) does not fail the run: it is the last call of the run, the
\* completed review body stays in the comment, no update with the failure
\* message is issued, and the handler returns normally.
C23_FailedLabelRemovalIsHarmless ==
  \A i \in 1..Len(calls) :
    (/\ run.agent = "review"
     /\ calls[i].op = "removeLabel"
     /\ calls[i].res \in {"404", "error"}) =>
      /\ i = Len(calls)
      /\ host.comment.kind = "review"
      /\ host.comment = ReviewBody(loc.analysis)
      /\ \A m \in 1..Len(calls) :
           calls[m].op = "updateComment" => calls[m].body.kind = "review"
      /\ run.state = "returned"
      /\ response # "error"

\* the label was not on the PR: its removal answered 404, the review is in
\* the comment and POST answered OK
C23_Witness ==
  /\ run = [agent |-> "review", state |-> "returned"]
  /\ Len(ReviewLabelRemovals) = 1
  /\ ReviewLabelRemovals[1].res = "404"
  /\ host.comment.kind = "review"
  /\ response = "ok"

\* C24 as stated: every proposal produced by the parser and the finalizer
\* with action = rename carries an oldFilename that is non-empty and
\* different from filename.
C24_RenameCarriesDistinctOldFilename ==
  \A j \in 1..Len(loc.proposals) :
    loc.proposals[j].actions.action = "rename" =>
      /\ loc.proposals[j].actions.oldFilename # <<>>
      /\ loc.proposals[j].actions.oldFilename # loc.proposals[j].filename

\* C24 as amended: every proposal produced by the parser and the finalizer
\* has a non-empty filename, a non-empty testContent and an action among
\* create, update and rename; a rename proposal may carry no oldFilename,
\* or one equal to its finalized filename, and the commit step issues an
\* old-file lookup or a delete only for a rename proposal whose oldFilename
\* is non-empty and different from filename.
C24_RenameOldFilenameIsOptional ==
  /\ \A j \in 1..Len(loc.proposals) :
       /\ loc.proposals[j].filename # <<>>
       /\ loc.proposals[j].testContent # ""
       /\ loc.proposals[j].actions.action \in {"create", "update", "rename"}
  /\ \A m \in 1..Len(calls) :
       (/\ IsCommitCall(m)
        /\ \/ calls[m].op = "deleteFile"
           \/ calls[m].op = "getContent" /\ calls[m].role = "old") =>
         LET proposal == loc.proposals[calls[m].k]
         IN /\ proposal.actions.action = "rename"
            /\ proposal.actions.oldFilename # <<>>
            /\ proposal.actions.oldFilename # proposal.filename

\* a rename proposal without oldFilename and one whose oldFilename equals
\* its finalized filename were both committed as plain writes
C24_Witness ==
  /\ run = [agent |-> "test", state |-> "returned"]
  /\ host.comment.kind = "results"
  /\ \E j \in 1..Len(loc.proposals) :
       /\ loc.proposals[j].actions.action = "rename"
       /\ loc.proposals[j].actions.oldFilename = <<>>
  /\ \E j \in 1..Len(loc.proposals) :
       /\ loc.proposals[j].actions.action = "rename"
       /\ loc.proposals[j].actions.oldFilename = loc.proposals[j].filename

(***************************************************************************)
(* Claims about the walk of the test root, checked under Spec.             *)
(***************************************************************************)
\* the first item of a listing whose content fetch the host rejects: the
\* walk of that directory is abandoned there (past the end: nowhere)
AbandonedAt(items) ==
  LET failing == {i \in 1..Len(items) :
                    items[i].type = "file" /\ items[i].answer = FetchError}
  IN IF failing = {} THEN Len(items) + 1
     ELSE CHOOSE i \in failing : \A j \in failing : i <= j

RECURSIVE StillReturned(_)
RECURSIVE StillReturnedUpTo(_, _)

\* the test files a best-effort walk of the tree returns: nothing of a
\* directory whose listing failed, of a directory abandoned at a failing
\* fetch what was collected before it, and everything outside of them
StillReturned(tree) ==
  IF tree.res # "dir" THEN <<>>
  ELSE StillReturnedUpTo(tree.items, AbandonedAt(tree.items) - 1)

StillReturnedUpTo(items, n) ==
  IF n = 0 THEN <<>>
  ELSE StillReturnedUpTo(items, n - 1) \o
         (IF items[n].type = "file" /\ Truthy(items[n].answer)
            THEN <<[filename |-> items[n].path, content |-> items[n].answer]>>
          ELSE IF items[n].type = "dir" THEN StillReturned(items[n].tree)
          ELSE <<>>)

\* the walk met a host error other than not-found
RECURSIVE WalkMetError(_)
WalkMetError(tree) ==
  \/ tree.res = "error"
  \/ /\ tree.res = "dir"
     /\ \E i \in 1..Len(tree.items) :
          /\ i <= AbandonedAt(tree.items)
          /\ \/ tree.items[i].type = "file" /\ tree.items[i].answer = FetchError
             \/ tree.items[i].type = "dir" /\ WalkMetError(tree.items[i].tree)

\* C26: getAllTestFiles never raises: when a listing or a content fetch of
\* the walk is rejected with an error other than not-found, only the
\* directory in which that happened is given up; the test files collected
\* before and the entries outside that directory are returned, and the test
\* agent is called with them.
C26_WalkErrorSkipsOnlyItsSubtree ==
  (testTree # NoTree /\ WalkMetError(testTree)) =>
    /\ existingTestFiles = StillReturned(testTree)
    /\ invoked = <<"handlePullRequestForTestAgent", "handleTestGeneration">>
    /\ run.agent = "test" /\ run.state # "none"

\* a fetch failed in a sub-directory, the files before and after that
\* sub-directory were returned and handleTestGeneration ran to its end
C26_Witness ==
  /\ testTree # NoTree
  /\ WalkMetError(testTree)
  /\ \E i \in 1..Len(testTree.items) :
       /\ testTree.items[i].type = "dir"
       /\ WalkMetError(testTree.items[i].tree)
       /\ testTree.items[i].tree.res = "dir"
  /\ Len(existingTestFiles) = 2
  /\ existingTestFiles[1].filename = A_TEST
  /\ existingTestFiles[2].filename = D_TEST
  /\ run = [agent |-> "test", state |-> "returned"]

(***************************************************************************)
(* Claims about the write of one proposal, checked under Spec.             *)
(***************************************************************************)
\* call i is the commit step's lookup of a proposal's target path
TargetLookup(i) ==
  /\ calls[i].op = "getContent"
  /\ calls[i].k > 0
  /\ calls[i].role = "target"

\* call w is the create/update call made for the lookup that is call i
WriteFor(w, i) ==
  /\ calls[w].op = "createOrUpdateFileContents"
  /\ calls[w].k = calls[i].k
  /\ calls[w].path = calls[i].path

\* the step appends a create/update call
WriteIssued ==
  /\ Len(calls') = Len(calls) + 1
  /\ calls'[Len(calls')].op = "createOrUpdateFileContents"

\* C27: for each proposal the commit step first looks the target path up on
\* the branch.  When the lookup finds a file, createOrUpdateFileContents is
\* called next, for that path, with the hash the file has on the branch;
\* when the lookup answers not-found, it is called next without a hash, the
\* handler is not on its failure path, and the accepted call creates the
\* file.
C27_LookupDecidesUpdateOrCreate ==
  /\ [](/\ \A w \in 1..Len(calls) :
             calls[w].op = "createOrUpdateFileContents" =>
               /\ w > 1
               /\ \/ /\ TargetLookup(w - 1)
                     /\ WriteFor(w, w - 1)
                     /\ calls[w - 1].res \in {"file", "dir", "404"}
                  \/ /\ WriteFor(w, w - 1)
                     /\ calls[w - 1].res = "404"
                     /\ calls[w].sha = 0
        /\ \A i \in 1..Len(calls) :
             TargetLookup(i) =>
               /\ calls[i].res = "file" =>
                    IF i = Len(calls)
                      THEN /\ pc = "c_write"
                           /\ loc.held > 0
                           /\ loc.held = host.branch[calls[i].path]
                      ELSE WriteFor(i + 1, i) /\ calls[i + 1].sha > 0
               /\ calls[i].res = "404" =>
                    IF i = Len(calls)
                      THEN pc = "c_create"
                      ELSE WriteFor(i + 1, i) /\ calls[i + 1].sha = 0)
  /\ [][WriteIssued =>
          LET w == Len(calls')
          IN /\ calls[w - 1].res = "file" =>
                  calls'[w].sha = host.branch[calls'[w].path]
             /\ (calls[w - 1].res = "404" /\ calls'[w].res = "ok") =>
                  /\ host.branch[calls'[w].path] = 0
                  /\ host'.branch[calls'[w].path] > 0
                  /\ pc' # "t_catch"]_vars

\* one run updated a file found on the branch with its hash and created a
\* file whose lookup answered not-found, and the handler returned
C27_Witness ==
  /\ run = [agent |-> "test", state |-> "returned"]
  /\ host.comment.kind = "results"
  /\ \E i, j \in 1..(Len(calls) - 1) :
       /\ TargetLookup(i) /\ calls[i].res = "file"
       /\ WriteFor(i + 1, i) /\ calls[i + 1].sha > 0 /\ calls[i + 1].res = "ok"
       /\ TargetLookup(j) /\ calls[j].res = "404"
       /\ WriteFor(j + 1, j) /\ calls[j + 1].sha = 0 /\ calls[j + 1].res = "ok"

\* call i is the old-file lookup of a rename proposal, answered not-found
OldNotFoundAt(i) ==
  /\ calls[i].op = "getContent"
  /\ calls[i].k > 0
  /\ calls[i].role = "old"
  /\ calls[i].res = "404"

\* the commit step went on from the not-found at call i to the lookup of
\* the proposal's target path: no delete, nothing raised
GoesOnAfter(i) ==
  /\ Deletes(calls[i].k) = {}
  /\ IF i = Len(calls) THEN pc = "c_lookup"
     ELSE /\ TargetLookup(i + 1)
          /\ calls[i + 1].k = calls[i].k
          /\ calls[i + 1].path = loc.proposals[calls[i].k].filename

\* proposal j was reached by the loop and is a rename whose oldFilename is
\* absent or equal to its filename
PlainRename(j) ==
  /\ loc.proposals[j].actions.action = "rename"
  /\ \/ loc.proposals[j].actions.oldFilename = <<>>
     \/ loc.proposals[j].actions.oldFilename = loc.proposals[j].filename

\* no old-file lookup and no delete was issued for proposal j
NoOldFileCalls(j) ==
  /\ Deletes(j) = {}
  /\ \A i \in 1..Len(calls) :
       (calls[i].op = "getContent" /\ calls[i].k = j) =>
         calls[i].role = "target"

\* C28 as stated: when the old file of a rename proposal is not found, no
\* delete call is made, no error is raised and the new file is written
\* exactly once; a rename proposal whose oldFilename is absent or equal to
\* filename has no old-file lookup and no delete.
C28_OldNotFoundWritesOnce ==
  Finished =>
    /\ \A i \in 1..Len(calls) :
         OldNotFoundAt(i) =>
           /\ GoesOnAfter(i)
           /\ Cardinality(Writes(calls[i].k)) = 1
           /\ \A w \in Writes(calls[i].k) : calls[w].res = "ok"
    /\ \A j \in 1..Len(loc.proposals) : PlainRename(j) => NoOldFileCalls(j)

\* C28 as amended: when the old file of a rename proposal is not found, no
\* delete call is made, the not-found raises nothing and the commit step
\* goes on to the lookup of the new path; the new file is then written with
\* one create/update call, with two when the first was answered not-found,
\* with none when the lookup of the new path was rejected, and the write is
\* accepted unless the host rejects it.  A rename proposal whose oldFilename
\* is absent or equal to filename has no old-file lookup and no delete.
C28_OldNotFoundGoesOnToWrite ==
  /\ \A i \in 1..Len(calls) :
       OldNotFoundAt(i) =>
         /\ GoesOnAfter(i)
         /\ Finished =>
              /\ Cardinality(Writes(calls[i].k)) =
                   IF calls[i + 1].res = "error" THEN 0
                   ELSE IF FirstWriteNotFound(calls[i].k) THEN 2
                   ELSE 1
              /\ \A w \in Writes(calls[i].k) :
                   calls[w].path = loc.proposals[calls[i].k].filename
  /\ \A j \in 1..Len(loc.proposals) : PlainRename(j) => NoOldFileCalls(j)

\* one run committed a rename whose old file was not found and a rename
\* without oldFilename, each with one accepted write
C28_Witness ==
  /\ run = [agent |-> "test", state |-> "returned"]
  /\ \E i \in 1..Len(calls) :
       /\ OldNotFoundAt(i)
       /\ Deletes(calls[i].k) = {}
       /\ Cardinality(Writes(calls[i].k)) = 1
       /\ \A w \in Writes(calls[i].k) : calls[w].res = "ok"
  /\ \E j \in 1..Len(loc.proposals) :
       /\ PlainRename(j)
       /\ \E w \in Writes(j) : calls[w].res = "ok"

(***************************************************************************)
(* The order of the context's sequences, checked under SpecContext.        *)
(***************************************************************************)
\* C29: the changedFiles of the context returned has the length of the
\* host's changed-file list and its filenames in the host's order, in
\* whatever order the concurrent content fetches settled, and commitMessages
\* has the messages of the host's commit list in the host's order.
C29_HostOrderIsPreserved ==
  cpc = "returned" =>
    /\ Len(changedFiles) = Len(hostFiles)
    /\ \A i \in 1..Len(hostFiles) :
         changedFiles[i].filename = hostFiles[i].filename
    /\ Len(commitMessages) = Len(hostCommits)
    /\ \A i \in 1..Len(hostCommits) :
         commitMessages[i] = hostCommits[i].message

\* two fetches settled in the reverse of the host's order, and the host
\* answered two commits with different messages
C29_Witness ==
  /\ cpc = "returned"
  /\ \E m, n \in 1..Len(settled) :
       /\ m < n
       /\ settled[m] > settled[n]
       /\ fetched[settled[m]] # NotAsked
       /\ fetched[settled[n]] # NotAsked
       /\ hostFiles[settled[m]].filename # hostFiles[settled[n]].filename
  /\ Len(commitMessages) = 2
  /\ commitMessages[1] # commitMessages[2]

(***************************************************************************)
(* The frame of context construction, checked under Spec.                  *)
(***************************************************************************)
\* the host calls that read
HostReads == {"listFiles", "getFileContent", "listCommits", "getContent"}

\* POST is before the call of an agent: parsing, routing, or inside
\* handlePullRequestBase or handlePullRequestForTestAgent
BeforeAgent == pc \in {"start", "route", "context", "testFiles"}

\* C30: a step of context construction (handlePullRequestBase, and the walk
\* of handlePullRequestForTestAgent) makes host reads only and leaves the
\* PR's comment, the branch's files and the PR's labels as they were; when
\* POST answers an error before an agent has started, no call that writes
\* has been made at all.
C30_ContextConstructionOnlyReads ==
  /\ []((response = "error" /\ run.state = "none") =>
          /\ \A i \in 1..Len(calls) : calls[i].op \in HostReads
          /\ host.comment = NoComment)
  /\ [][BeforeAgent =>
          /\ host' = host
          /\ Len(calls') >= Len(calls)
          /\ \A i \in (Len(calls) + 1)..Len(calls') :
               calls'[i].op \in HostReads]_vars

\* construction failed at listCommits after the reads before it: the labels
\* and the branch's file are still on the host and no comment was made
C30_Witness ==
  /\ response = "error"
  /\ run.state = "none"
  /\ invoked = <<"handlePullRequestForTestAgent">>
  /\ Len(calls) = 3
  /\ calls[3] = [op |-> "listCommits", res |-> "error"]
  /\ host.labels = {REVIEW_LABEL, TEST_GENERATION_LABEL}
  /\ host.branch[FOO_TS] > 0
  /\ host.comment = NoComment

(***************************************************************************)
(* SpecRace: two invocations of handleTestGeneration for the same PR, both *)
(* generating at most one proposal for the same path of the same branch,   *)
(* one step per awaited call, in any interleaving.  The host answers a     *)
(* write by the blob hash it is given (test-agent.ts lines 248-256,        *)
(* 263-270); the invocations share nothing but the host.                   *)
(***************************************************************************)
RacePlaceholder == TestPlaceholder

\* what the host answers to createOrUpdateFileContents for the path: the
\* hash must be the current one of an existing file and absent for a new
\* one; otherwise 409 (stale hash) or 422 (hash missing)
RaceWriteAnswer(sha) ==
  IF shared.branch = 0 /\ sha = 0 THEN "ok"
  ELSE IF shared.branch > 0 /\ sha = shared.branch THEN "ok"
  ELSE IF sha = 0 THEN "422" ELSE "409"

\* test-agent.ts line 258 mutated: every rejected write is repeated
WriteCatchPcRetriesAll(status) == "c_create"

\* test-agent.ts lines 257-273: the catch around the lookup and the write
\* repeats the write after a 404 and rethrows every other error
WriteCatchPc(status) == IF status = "404" THEN "c_create" ELSE OnRejection

\* comments.ts line 33 mutated: the update goes to the PR's latest comment
UpdateTargetLatest(r) == Len(shared.comments)

\* test-agent.ts lines 375, 389, 398; comments.ts line 33: the comment an
\* update is sent for
UpdateTarget(r) == r.commentId

\* comments.ts lines 24-36 as invocation i calls it
RaceUpdate(i, body, ok, to) ==
  LET target == UpdateTarget(runs[i])
  IN /\ shared' = IF ok THEN [shared EXCEPT !.comments[target].body = body]
                  ELSE shared
     /\ runs' = [runs EXCEPT ![i].updated = @ \cup {target}, ![i].pc = to]

RaceInit ==
  /\ runs = [i \in Invocations |-> NewRun("t_create")]
  /\ \E b \in {0, 1} :
       shared = [comments |-> <<>>, branch |-> b, author |-> 0,
                 label |-> TRUE]
  /\ CtxIdle
  /\ FinIdle
  /\ MainIdle

\* test-agent.ts line 363, comments.ts lines 15-21
XCreate(i) ==
  /\ runs[i].pc = "t_create"
  /\ \E ok \in BOOLEAN :
       IF ok
         THEN /\ shared' = [shared EXCEPT !.comments =
                              Append(@, [by |-> i, body |-> RacePlaceholder])]
              /\ runs' = [runs EXCEPT ![i].commentId = Len(shared.comments) + 1,
                                      ![i].created = @ + 1,
                                      ![i].pc = "t_gate"]
         ELSE /\ shared' = shared
              /\ runs' = [runs EXCEPT ![i].pc = "t_catch"]
  /\ UNCHANGED <<ctxVars, finVars, mainVars>>

\* test-agent.ts lines 370-371
XGate(i) ==
  /\ runs[i].pc = "t_gate"
  /\ \E answer \in GateAnswers \cup {ModelFailure} :
       runs' = [runs EXCEPT ![i].reason = gatingStep(answer).reason,
                            ![i].pc = AfterGatePc(gatingStep(answer))]
  /\ UNCHANGED shared
  /\ UNCHANGED <<ctxVars, finVars, mainVars>>

\* test-agent.ts lines 372-378
XSkip(i) ==
  /\ runs[i].pc = "t_skip"
  /\ \E ok \in BOOLEAN :
       RaceUpdate(i, SkipBody(runs[i].reason), ok,
                  IF ok THEN "returned" ELSE "t_catch")
  /\ UNCHANGED <<ctxVars, finVars, mainVars>>

\* test-agent.ts lines 381-384: no proposal, or one for the path
XGenerate(i) ==
  /\ runs[i].pc = "t_generate"
  /\ \E one \in BOOLEAN :
       runs' = [runs EXCEPT ![i].proposes = one,
                            ![i].pc = IF one THEN "c_lookup" ELSE "t_result"]
  /\ UNCHANGED shared
  /\ UNCHANGED <<ctxVars, finVars, mainVars>>

\* test-agent.ts lines 238-243, 257-258
XLookup(i) ==
  /\ runs[i].pc = "c_lookup"
  /\ \E rejected \in BOOLEAN :
       runs' = [runs EXCEPT
                  ![i].lookups = @ + 1,
                  ![i].held = IF rejected THEN @ ELSE ShaPassed(shared.branch),
                  ![i].pc = IF rejected THEN WriteCatchPc("error")
                            ELSE IF shared.branch = 0 THEN WriteCatchPc("404")
                            ELSE "c_write"]
  /\ UNCHANGED shared
  /\ UNCHANGED <<ctxVars, finVars, mainVars>>

\* the write of invocation i with the hash sha; a rejected one goes to
RaceWrite(i, sha, onRejection) ==
  LET res == RaceWriteAnswer(sha)
  IN /\ shared' = IF res = "ok"
                    THEN [shared EXCEPT !.branch = @ + 1, !.author = i]
                    ELSE shared
     /\ runs' = [runs EXCEPT
                   ![i].writes = @ + 1,
                   ![i].stale = @ \/ (sha # shared.branch),
                   ![i].conflict = @ \/ (res # "ok"),
                   ![i].wrote = @ \/ (res = "ok"),
                   ![i].pc = IF res = "ok" THEN "t_result" ELSE onRejection]

\* test-agent.ts lines 248-256, 257-273
XWrite(i) ==
  /\ runs[i].pc = "c_write"
  /\ RaceWrite(i, runs[i].held, WriteCatchPc(RaceWriteAnswer(runs[i].held)))
  /\ UNCHANGED <<ctxVars, finVars, mainVars>>

\* test-agent.ts lines 259-270: the write without a hash, in the catch
XCreateFile(i) ==
  /\ runs[i].pc = "c_create"
  /\ RaceWrite(i, 0, OnRejection)
  /\ UNCHANGED <<ctxVars, finVars, mainVars>>

\* test-agent.ts lines 386-392
XResult(i) ==
  /\ runs[i].pc = "t_result"
  /\ \E ok \in BOOLEAN :
       RaceUpdate(i,
                  ResultsBody(IF runs[i].proposes
                                THEN <<Proposal(FOO_TS, "create", <<>>)>>
                                ELSE <<>>),
                  ok, IF ok THEN "t_label" ELSE "t_catch")
  /\ UNCHANGED <<ctxVars, finVars, mainVars>>

\* test-agent.ts line 393, handlers.ts lines 240-259
XLabel(i) ==
  /\ runs[i].pc = "t_label"
  /\ \E rejected \in BOOLEAN :
       LET res == IF rejected THEN "error"
                  ELSE IF shared.label THEN "ok" ELSE "404"
       IN /\ shared' = IF res = "ok" THEN [shared EXCEPT !.label = FALSE]
                       ELSE shared
          /\ runs' = [runs EXCEPT
                        ![i].removals = @ + 1,
                        ![i].pc = IF RemoveLabelRethrows(res) THEN "t_catch"
                                  ELSE "returned"]
  /\ UNCHANGED <<ctxVars, finVars, mainVars>>

\* test-agent.ts lines 394-403
XCatch(i) ==
  /\ runs[i].pc = "t_catch"
  /\ IF CatchUpdates(runs[i].commentId)
       THEN \E ok \in BOOLEAN :
              RaceUpdate(i, TestFailure, ok, IF ok THEN "returned" ELSE "threw")
       ELSE /\ runs' = [runs EXCEPT ![i].pc = "returned"]
            /\ shared' = shared
  /\ UNCHANGED <<ctxVars, finVars, mainVars>>

RaceNext ==
  \E i \in Invocations :
    \/ XCreate(i)
    \/ XGate(i)
    \/ XSkip(i)
    \/ XGenerate(i)
    \/ XLookup(i)
    \/ XWrite(i)
    \/ XCreateFile(i)
    \/ XResult(i)
    \/ XLabel(i)
    \/ XCatch(i)

SpecRace == RaceInit /\ [][RaceNext]_vars

(***************************************************************************)
(* Claims about concurrent invocations, checked under SpecRace.            *)
(***************************************************************************)
\* invocation i has finished
RaceFinished(i) == runs[i].pc \in {"returned", "threw"}

\* the body of the comment invocation i created
OwnComment(i) == shared.comments[runs[i].commentId].body

\* invocation i wrote with a hash (or a not-found) that was stale at the
\* time of the write: the host answered a conflict, the write was not
\* repeated, the label was not removed by i, and i is on its failure path
ConflictNotRetried(i) ==
  /\ runs[i].conflict
  /\ ~runs[i].wrote
  /\ runs[i].writes = 1
  /\ runs[i].removals = 0
  /\ runs[i].pc \in {"t_catch", "returned", "threw"}

\* a step that changes the file is a write by an invocation whose hash is
\* the one the branch holds: what the other invocation wrote has been seen
NoSilentOverwrite ==
  (shared'.branch # shared.branch \/ shared'.author # shared.author) =>
    \E i \in Invocations :
      /\ runs[i].pc \in {"c_write", "c_create"}
      /\ runs'[i].writes = runs[i].writes + 1
      /\ (IF runs[i].pc = "c_write" THEN runs[i].held ELSE 0) = shared.branch
      /\ shared'.author = i
      /\ shared'.branch = shared.branch + 1

\* C31 as stated: an invocation whose hash or not-found result is stale at
\* its write gets a conflict, does not retry, ends with the generic failure
\* comment and without removing the label; no write is silently overwritten.
C31_StaleWriteEndsWithFailureComment ==
  /\ [](\A i \in Invocations :
          runs[i].stale =>
            /\ ConflictNotRetried(i)
            /\ RaceFinished(i) => OwnComment(i) = TestFailure)
  /\ [][NoSilentOverwrite]_vars

\* C31 as amended: an invocation whose hash or not-found result is stale at
\* its write gets a conflict, does not retry and does not remove the label;
\* it sends the generic failure message for its comment and returns with
\* that comment showing it, or, when that update is rejected, raises with
\* its comment still the placeholder; no write is silently overwritten.
C31_StaleWriteConflictsWithoutRetry ==
  /\ [](\A i \in Invocations :
          runs[i].stale =>
            /\ ConflictNotRetried(i)
            /\ runs[i].pc = "returned" => OwnComment(i) = TestFailure
            /\ runs[i].pc = "threw" => OwnComment(i) = RacePlaceholder)
  /\ [][NoSilentOverwrite]_vars

\* both invocations looked the path up before either wrote; one wrote,
\* posted its result and removed the label, the other got the conflict for
\* its stale hash and ended with the failure comment
C31_Witness ==
  \E i, j \in Invocations :
    /\ i # j
    /\ runs[i].stale /\ runs[i].conflict /\ runs[i].held > 0
    /\ runs[i].pc = "returned"
    /\ OwnComment(i) = TestFailure
    /\ runs[j].wrote /\ runs[j].pc = "returned" /\ runs[j].removals = 1
    /\ OwnComment(j).kind = "results"
    /\ shared.author = j
    /\ ~shared.label

(***************************************************************************)
(* Claims about the order of an agent's calls, checked under Spec.         *)
(***************************************************************************)
\* the calls the agent made: the log without the reads of context
\* construction
AgentCalls ==
  SelectSeq(calls,
            LAMBDA c : /\ c.op \notin {"listFiles", "getFileContent",
                                       "listCommits"}
                       /\ c.op = "getContent" => c.k > 0)

\* no call of the agent failed: no rejection, every lookup answered a file
\* or not-found, every delete, write, comment call and label removal done
EveryCallSucceeded ==
  \A i \in 1..Len(AgentCalls) :
    IF AgentCalls[i].op = "getContent"
      THEN AgentCalls[i].res \in {"file", "404"}
      ELSE AgentCalls[i].res = "ok"

\* handleTestGeneration returned after an affirmative gate
GeneratedAndReturned ==
  /\ run = [agent |-> "test", state |-> "returned"]
  /\ loc.gate.shouldGenerate

\* C32: in a run of handleTestGeneration with an affirmative gate in which
\* every call succeeds, the calls are, in this order: the placeholder
\* creation, the gating model call, the generation model call, the commit
\* calls of the proposals in their order with one write each, the update
\* with the results of these proposals, the removal of the test-generation
\* label; the creation, both model calls, the update and the removal occur
\* exactly once.
C32_CallsInOrderOnce ==
  (GeneratedAndReturned /\ EveryCallSucceeded) =>
    LET n == Len(AgentCalls)
    IN /\ n >= 5
       /\ AgentCalls[1] = [op |-> "createComment", body |-> TestPlaceholder,
                           res |-> "ok"]
       /\ AgentCalls[2] = [op |-> "generateObject", res |-> "ok"]
       /\ AgentCalls[3].op = "generateText"
       /\ \A i \in 4..(n - 2) :
            /\ AgentCalls[i].op \in {"getContent", "deleteFile",
                                     "createOrUpdateFileContents"}
            /\ i > 4 => AgentCalls[i - 1].k <= AgentCalls[i].k
       /\ \A j \in 1..Len(loc.proposals) :
            /\ Cardinality(Writes(j)) = 1
            /\ \A w \in Writes(j) : calls[w].path = loc.proposals[j].filename
       /\ AgentCalls[n - 1] = [op |-> "updateComment",
                               body |-> ResultsBody(loc.proposals),
                               res |-> "ok"]
       /\ AgentCalls[n] = [op |-> "removeLabel",
                           label |-> TEST_GENERATION_LABEL, res |-> "ok"]
       /\ host.comment = ResultsBody(loc.proposals)

\* such a run with two proposals committed
C32_Witness ==
  /\ GeneratedAndReturned
  /\ EveryCallSucceeded
  /\ Len(loc.proposals) = 2
  /\ Len(AgentCalls) >= 9
  /\ host.comment.kind = "results"
  /\ TEST_GENERATION_LABEL \notin host.labels

(***************************************************************************)
(* What is still in flight when POST answers, checked under SpecContext.   *)
(***************************************************************************)
\* handlePullRequestBase has returned or raised: nothing is awaited between
\* that and POST's response (route.ts lines 24-46, the agent aside)
ContextSettled == cpc \in {"returned", "threw"}

\* C33: when the construction of the context has ended, and with it, on a
\* failure, the invocation (POST answers the error), no content fetch the
\* invocation started is still pending.
C33_NothingPendingAfterResponse ==
  ContextSettled => \A i \in 1..Len(fstate) : fstate[i] # "pending"

(***************************************************************************)
(* Further claims about POST and the agents, checked under Spec.           *)
(***************************************************************************)
\* the agent handlers POST has called, in order
AgentsInvoked ==
  SelectSeq(invoked,
            LAMBDA h : h \in {"handleReviewAgent", "handleTestGeneration"})

\* C34: whatever the event type, the action and the label name of the
\* delivery, POST calls at most one agent handler, at most once: never the
\* review agent and the test generation agent for the same delivery.
C34_AtMostOneAgentPerDelivery ==
  /\ Len(AgentsInvoked) <= 1
  /\ Len(SelectSeq(invoked,
                   LAMBDA h : h \in {"handlePullRequestBase",
                                     "handlePullRequestForTestAgent"})) <= 1
  /\ Len(CallsOf("createComment")) <= 1

\* a labeled delivery ran its agent to the end and POST answered
C34_Witness ==
  /\ pc = "done"
  /\ response = "ok"
  /\ req.action = "labeled"
  /\ Len(AgentsInvoked) = 1
  /\ run.state = "returned"

\* C35: whatever the host answers to the lookup and to the write, the
\* commit step issues at most one createOrUpdateFileContents call for a
\* proposal.
C35_AtMostOneWritePerProposal ==
  \A j \in 1..Len(loc.proposals) :
    /\ Cardinality(Writes(j)) <= 1
    /\ \A w \in Writes(j) : calls[w].path = loc.proposals[j].filename

\* the creation of the placeholder comment was rejected
PlaceholderFailed ==
  \E i \in 1..Len(calls) :
    calls[i].op = "createComment" /\ calls[i].res = "error"

\* C36: when the creation of the placeholder comment fails, the agent
\* (review or test generation) makes no model call, no comment update, no
\* file lookup, write or delete and no label removal; it returns without
\* raising and POST answers {message: 'OK'}.
C36_FailedPlaceholderEndsQuietly ==
  PlaceholderFailed =>
    /\ calls[Len(calls)].op = "createComment"
    /\ NoCallOf({"generateObject", "generateText", "updateComment",
                 "deleteFile", "createOrUpdateFileContents", "removeLabel"})
    /\ \A i \in 1..Len(calls) : calls[i].op = "getContent" => calls[i].k = 0
    /\ loc.commentId = 0
    /\ host.comment = NoComment
    /\ run.state \in {"running", "returned"}
    /\ response # "error"
    /\ pc \in {"r_catch", "t_catch", "route", "done"}
    /\ pc = "done" => response = "ok"

\* the placeholder of either agent failed and POST has answered OK
C36_Witness ==
  /\ PlaceholderFailed
  /\ pc = "done"
  /\ response = "ok"
  /\ run.state = "returned"
  /\ run.agent = "test"

\* call i is the generation call of the test agent and it yielded no
\* proposal: the model failed, the text did not parse, or every item lacked
\* its filename or its content
NoProposalsAt(i) ==
  /\ run.agent = "test"
  /\ calls[i].op = "generateText"
  /\ loc.proposals = <<>>

\* the commit step made no call
NoBranchCalls ==
  /\ NoCallOf({"deleteFile", "createOrUpdateFileContents"})
  /\ \A m \in 1..Len(calls) : calls[m].op = "getContent" => calls[m].k = 0

\* C37 as stated: when the gate is affirmative and generation yields no
\* proposal, no file lookup, write or delete is issued, the comment is
\* updated with the 'no test proposals' notice and the test-generation label
\* is removed.
C37_NoProposalsPostsNoticeAndUnlabels ==
  \A i \in 1..Len(calls) :
    (NoProposalsAt(i) /\ Finished) =>
      /\ NoBranchCalls
      /\ host.comment = [kind |-> "noProposals"]
      /\ TEST_GENERATION_LABEL \notin host.labels

\* C37 as amended: when the gate is affirmative and generation yields no
\* proposal, no file lookup, write or delete is issued and the next call is
\* the comment update with the 'no test proposals' notice; when the host
\* accepts it the comment holds the notice, the removal of the
\* test-generation label is called next and the handler returns, the label
\* being gone unless the host rejected the removal; when the host rejects
\* the update, the catch sends the failure message and the label is not
\* removed.
C37_NoProposalsSendsNotice ==
  \A i \in 1..Len(calls) :
    NoProposalsAt(i) =>
      /\ NoBranchCalls
      /\ i = Len(calls) => pc = "t_result"
      /\ i < Len(calls) =>
           /\ calls[i + 1] = [op |-> "updateComment",
                              body |-> [kind |-> "noProposals"],
                              res |-> calls[i + 1].res]
           /\ (calls[i + 1].res = "ok" /\ Finished) =>
                /\ host.comment = [kind |-> "noProposals"]
                /\ Len(calls) = i + 2
                /\ calls[i + 2].op = "removeLabel"
                /\ calls[i + 2].label = TEST_GENERATION_LABEL
                /\ calls[i + 2].res # "error" =>
                     TEST_GENERATION_LABEL \notin host.labels
                /\ run.state = "returned"
           /\ (calls[i + 1].res = "error" /\ Finished) =>
                /\ NoCallOf({"removeLabel"})
                /\ calls[i + 2] = [op |-> "updateComment",
                                   body |-> TestFailure,
                                   res |-> calls[i + 2].res]

\* the model answered a well-delimited text that yielded no proposal, the
\* notice was posted and the label removed
C37_Witness ==
  /\ run = [agent |-> "test", state |-> "returned"]
  /\ loc.gate.shouldGenerate
  /\ \E i \in 1..Len(calls) :
       /\ NoProposalsAt(i)
       /\ calls[i].res = "ok"
       /\ calls[i].startIndex = 0 /\ calls[i].endTagIndex = 40
       /\ calls[i + 2].op = "removeLabel" /\ calls[i + 2].res = "ok"
  /\ host.comment = [kind |-> "noProposals"]
  /\ TEST_GENERATION_LABEL \notin host.labels

(***************************************************************************)
(* The comment each invocation works on, checked under SpecRace.           *)
(***************************************************************************)
\* C38: each run creates at most one comment, and every comment update of a
\* run is sent for the id its own placeholder creation returned: in every
\* interleaving of two invocations no run updates a comment the other run
\* created, and a comment that is no longer the placeholder was changed by
\* the run that created it.
C38_UpdatesTargetOwnComment ==
  /\ \A i \in Invocations :
       /\ runs[i].created <= 1
       /\ runs[i].created = 0 => runs[i].updated = {}
       /\ \A id \in runs[i].updated :
            /\ id = runs[i].commentId
            /\ id \in 1..Len(shared.comments)
            /\ shared.comments[id].by = i
  /\ \A id \in 1..Len(shared.comments) :
       shared.comments[id].body # RacePlaceholder =>
         id \in runs[shared.comments[id].by].updated
  /\ Len(shared.comments) = runs[1].created + runs[2].created

\* both invocations created their comment and finished, and the two
\* comments hold different results, each sent by the run that created it
C38_Witness ==
  /\ Len(shared.comments) = 2
  /\ \A i \in Invocations : RaceFinished(i) /\ runs[i].updated # {}
  /\ shared.comments[1].body # RacePlaceholder
  /\ shared.comments[2].body # RacePlaceholder
  /\ shared.comments[1].body # shared.comments[2].body

(***************************************************************************)
(* What the result comment lists, checked under Spec.                      *)
(***************************************************************************)
\* call u is an update of the comment with a list of filenames
ListsFilenames(u) ==
  /\ calls[u].op = "updateComment"
  /\ calls[u].body.kind = "results"

\* the commit step was left by an error: a call rejected with an error
\* other than not-found, or the write in the catch answered not-found
CommitAborted ==
  \/ CommitErrorArose
  \/ \E i \in 2..Len(calls) :
       /\ calls[i].op = "createOrUpdateFileContents"
       /\ calls[i].res = "404"
       /\ calls[i - 1].res = "404"

\* C39: whenever the result comment lists a filename as added or updated, a
\* createOrUpdateFileContents call for exactly that path succeeded earlier
\* in the same run; a run whose commit step was aborted sends no update
\* with a list of filenames.
C39_ListedFilesWereWritten ==
  /\ \A u \in 1..Len(calls) :
       ListsFilenames(u) =>
         /\ calls[u].body.files # <<>>
         /\ \A n \in 1..Len(calls[u].body.files) :
              \E w \in 1..(u - 1) :
                /\ calls[w].op = "createOrUpdateFileContents"
                /\ calls[w].k = n
                /\ calls[w].path = calls[u].body.files[n]
                /\ calls[w].res = "ok"
  /\ CommitAborted =>
       /\ \A u \in 1..Len(calls) : ~ListsFilenames(u)
       /\ host.comment.kind # "results"

\* a run committed two proposals and its comment lists both filenames
C39_Witness ==
  /\ run = [agent |-> "test", state |-> "returned"]
  /\ host.comment.kind = "results"
  /\ Len(host.comment.files) = 2
  /\ host.comment.files[1] # host.comment.files[2]
  /\ \A n \in 1..2 : \E w \in Writes(n) :
       calls[w].res = "ok" /\ calls[w].path = host.comment.files[n]

====
